---- MODULE Spec2Model ----
(***************************************************************************)
(* The product-matching engine of kbl-automator: ProductCatalogueManager   *)
(* (src/src/product_catalogue_manager.py) and the static mapping tables    *)
(* and helpers of src/src/manual_product_mappings.py.                      *)
(*                                                                         *)
(* Representation.                                                         *)
(*  - A Python str is the sequence of its characters, each a one-character *)
(*    TLA+ string: "Soap" is <<"S","o","a","p">>.  Containment, lower(),   *)
(*    strip(), split()/join() and every regular expression of the source  *)
(*    are computed character by character.                                 *)
(*  - A score is an exact rational.  SequenceMatcher.ratio() of two texts  *)
(*    whose lengths sum to T is 2*M/T; every bonus and penalty of the      *)
(*    source is a multiple of 0.01, so a score of one (listing, product)   *)
(*    pair is num/den with den = 100*T.  The source computes in binary     *)
(*    floating point; the model does not reproduce its rounding.           *)
(*  - Money is an integer number of pence; a unit cost that is a quotient  *)
(*    (get_flawlessly_u_unit_cost) is the pair of its numerator and        *)
(*    denominator.                                                         *)
(***************************************************************************)
EXTENDS Integers, Sequences, FiniteSets, TLC

VARIABLES
    catalogue_file,  \* the stored catalogue: [exists, rows] (the CSV at self.catalogue_file)
    products_df,     \* self.products_df: the sequence of catalogue rows
    price_history,   \* self.price_history
    pc,              \* "idle", or "returned" when the last call has returned
    call,            \* the last call: its operation and arguments
    result,          \* the value the last call returned
    trace            \* what the last call did: the stage that returned, the
                     \* title handed to the scorer, the per-row scores

vars == <<catalogue_file, products_df, price_history, pc, call, result, trace>>

----------------------------------------------------------------------------
(* Characters and Python's str operations. *)

ToLowerMap ==
    [A |-> "a", B |-> "b", C |-> "c", D |-> "d", E |-> "e", F |-> "f", G |-> "g",
     H |-> "h", I |-> "i", J |-> "j", K |-> "k", L |-> "l", M |-> "m", N |-> "n",
     O |-> "o", P |-> "p", Q |-> "q", R |-> "r", S |-> "s", T |-> "t", U |-> "u",
     V |-> "v", W |-> "w", X |-> "x", Y |-> "y", Z |-> "z"]

LowerLetters ==
    {"a","b","c","d","e","f","g","h","i","j","k","l","m",
     "n","o","p","q","r","s","t","u","v","w","x","y","z"}

DigitVal ==
    ("0" :> 0) @@ ("1" :> 1) @@ ("2" :> 2) @@ ("3" :> 3) @@ ("4" :> 4) @@
    ("5" :> 5) @@ ("6" :> 6) @@ ("7" :> 7) @@ ("8" :> 8) @@ ("9" :> 9)

IsDigit(c) == c \in DOMAIN DigitVal

\* \s of the regular expressions and the whitespace of str.split()/strip():
\* the texts of the model hold no whitespace other than the space.
IsSpace(c) == c = " "

\* \w of the regular expressions.
IsWordChar(c) == c \in LowerLetters \/ c \in DOMAIN ToLowerMap \/ IsDigit(c) \/ c = "_"

LowerChar(c) == IF c \in DOMAIN ToLowerMap THEN ToLowerMap[c] ELSE c

\* A local variable of the source: F at the value of v, computed once.
Local(v, F(_)) == CHOOSE r \in {F(x) : x \in {v}} : TRUE

\* The tuple of the elements of a sequence given as a function on 1..n.
Tuple(f) == SubSeq(f, 1, Len(f))

\* str.lower()
Lower(s) == Tuple([i \in 1..Len(s) |-> LowerChar(s[i])])

\* s[i..j] as a sequence; empty when j < i.
Slice(s, i, j) == SubSeq(s, i, j)

\* lit occurs in s at index i.
LitAt(s, i, lit) ==
    /\ i >= 1
    /\ i + Len(lit) - 1 <= Len(s)
    /\ \A k \in 1..Len(lit) : s[i + k - 1] = lit[k]

\* Python's  sub in s.
Contains(s, sub) == \E i \in 1..(Len(s) - Len(sub) + 1) : LitAt(s, i, sub)

\* The least index k in lo..hi with P(k); hi + 1 when there is none.
FirstIndex(lo, hi, P(_)) ==
    CHOOSE k \in lo..(hi + 1) :
        /\ k = hi + 1 \/ P(k)
        /\ \A m \in lo..(k - 1) : ~P(m)

\* The index after the run of whitespace that starts at i.
SkipSpaces(s, i) == FirstIndex(i, Len(s), LAMBDA k : ~IsSpace(s[k]))

\* The index after the run of digits that starts at i.
SkipDigits(s, i) == FirstIndex(i, Len(s), LAMBDA k : ~IsDigit(s[k]))

\* The elements of s at the indices that satisfy Keep, in order.
SelectIndices(s, Keep(_)) ==
    LET kept == SelectSeq([i \in 1..Len(s) |-> i], Keep)
    IN Tuple([k \in 1..Len(kept) |-> s[kept[k]]])

\* str.strip()
Strip(s) ==
    LET solid == {i \in 1..Len(s) : ~IsSpace(s[i])}
    IN IF solid = {} THEN <<>>
       ELSE SubSeq(s, CHOOSE i \in solid : \A j \in solid : i <= j,
                      CHOOSE i \in solid : \A j \in solid : i >= j)

\* ' '.join(s.split()): the whitespace before the first word and after the
\* last goes, every other run of whitespace becomes one space.
JoinSplit(s) ==
    LET solid == {i \in 1..Len(s) : ~IsSpace(s[i])}
        last == IF solid = {} THEN 0 ELSE CHOOSE i \in solid : \A j \in solid : i >= j
        Keep(i) == \/ ~IsSpace(s[i])
                   \/ i > 1 /\ ~IsSpace(s[i - 1]) /\ i < last
    IN Local(SelectIndices(s, Keep), LAMBDA kept :
           Tuple([k \in 1..Len(kept) |-> IF IsSpace(kept[k]) THEN " " ELSE kept[k]]))

\* int() of a run of digits.
RECURSIVE IntOf(_)
IntOf(ds) == IF ds = <<>> THEN 0
             ELSE 10 * IntOf(Slice(ds, 1, Len(ds) - 1)) + DigitVal[ds[Len(ds)]]

\* \b of the regular expressions at index i (between s[i-1] and s[i]).
WordBoundary(s, i) ==
    LET before == i - 1 >= 1 /\ i - 1 <= Len(s) /\ IsWordChar(s[i - 1])
        after  == i >= 1 /\ i <= Len(s) /\ IsWordChar(s[i])
    IN before # after

Min(S) == CHOOSE x \in S : \A y \in S : x <= y
Max(S) == CHOOSE x \in S : \A y \in S : x >= y

----------------------------------------------------------------------------
(* Regular expressions of the special rule table: re.search.  The patterns *)
(* use only literals, \s*, [..] sets and '.*'.  A pattern is the sequence  *)
(* of its segments between the '.*'; a segment is a sequence of pieces: a  *)
(* literal text (kind "lit"), \s* (kind "spaces") or one character of a    *)
(* set (kind "set").  The pattern matches somewhere in s iff its segments  *)
(* can be found one after the other, each at its earliest end.             *)

\* The indices at which a match of seg[k..], started at index i of s, can end
\* (the index after its last character).
RECURSIVE SegEnds(_, _, _, _)
SegEnds(s, i, seg, k) ==
    IF k > Len(seg) THEN {i}
    ELSE IF seg[k].kind = "spaces"
         THEN UNION {SegEnds(s, j, seg, k + 1) : j \in i..SkipSpaces(s, i)}
    ELSE IF seg[k].kind = "set"
         THEN IF i <= Len(s) /\ Contains(seg[k].chars, <<s[i]>>)
              THEN SegEnds(s, i + 1, seg, k + 1) ELSE {}
    ELSE IF LitAt(s, i, seg[k].chars)
         THEN SegEnds(s, i + Len(seg[k].chars), seg, k + 1) ELSE {}

\* The earliest end of a match of seg that starts at or after from; 0 if none.
EarliestEnd(s, from, seg) ==
    LET ends == UNION {SegEnds(s, i, seg, 1) : i \in from..(Len(s) + 1)}
    IN IF ends = {} THEN 0 ELSE Min(ends)

RECURSIVE SearchSegs(_, _, _, _)
SearchSegs(s, from, segs, n) ==
    IF n > Len(segs) THEN TRUE
    ELSE LET e == EarliestEnd(s, from, segs[n])
         IN e # 0 /\ SearchSegs(s, e, segs, n + 1)

\* re.search(pattern, s) is not None
RegexSearch(pattern, s) == SearchSegs(s, 1, pattern, 1)

----------------------------------------------------------------------------
(* difflib.SequenceMatcher(None, a, b).ratio() for texts shorter than 200  *)
(* characters (no junk, no autojunk).                                      *)

\* The length of the longest common prefix of a[i..ahi] and b[j..bhi].
CommonLen(a, b, i, j, ahi, bhi) ==
    LET limit == IF ahi - i < bhi - j THEN ahi - i + 1 ELSE bhi - j + 1
    IN FirstIndex(0, limit - 1, LAMBDA k : a[i + k] # b[j + k])

\* b2j of difflib, by position of a: for each index i of a, the indices of
\* b that hold the character a[i].
B2J(a, b) == Tuple([i \in 1..Len(a) |-> {j \in 1..Len(b) : b[j] = a[i]}])

\* <<i, j, k>>: the longest block a[i..i+k-1] = b[j..j+k-1] inside
\* a[alo..ahi], b[blo..bhi]; of the longest, the one earliest in a, then in b.
find_longest_match(a, b, b2j, alo, ahi, blo, bhi) ==
    LET StartsAt(i) == {j \in b2j[i] :
                          /\ blo <= j /\ j <= bhi
                          /\ (i = alo \/ j = blo \/ a[i - 1] # b[j - 1])}
    IN Local(UNION {{<<CommonLen(a, b, i, j, ahi, bhi), i, j>> : j \in StartsAt(i)} :
                    i \in alo..ahi},
             LAMBDA blocks :
                 IF blocks = {} THEN <<alo, blo, 0>>
                 ELSE Local(Max({m[1] : m \in blocks}), LAMBDA k :
                      Local(Min({m[2] : m \in {x \in blocks : x[1] = k}}), LAMBDA i :
                          <<i, Min({m[3] : m \in {x \in blocks : x[1] = k /\ x[2] = i}}), k>>)))

\* The total size of get_matching_blocks(): the longest block, then the
\* same to its left and to its right.
RECURSIVE MatchedChars(_, _, _, _, _, _, _)
MatchedChars(a, b, b2j, alo, ahi, blo, bhi) ==
    IF alo > ahi \/ blo > bhi THEN 0
    ELSE Local(find_longest_match(a, b, b2j, alo, ahi, blo, bhi), LAMBDA m :
             IF m[3] = 0 THEN 0
             ELSE m[3] + MatchedChars(a, b, b2j, alo, m[1] - 1, blo, m[2] - 1)
                       + MatchedChars(a, b, b2j, m[1] + m[3], ahi, m[2] + m[3], bhi))

\* ratio() = 2*M/T as the pair [m, t]; 1.0 when both texts are empty.
SequenceMatcherRatio(a, b) ==
    Local(B2J(a, b), LAMBDA b2j :
        [m |-> 2 * MatchedChars(a, b, b2j, 1, Len(a), 1, Len(b)), t |-> Len(a) + Len(b)])

(* MANUAL_COST_MAPPINGS, in table order; cost in pence. *)
MANUAL_COST_MAPPINGS == <<
    \* 1: "dr. s. wong's sulfur soap 80g" -> 1.10, "Dr S. Wong's Sulfur Soap 80g"
    [pattern |-> <<"d","r","."," ","s","."," ","w","o","n","g","'","s"," ","s","u","l","f","u","r"," ","s","o","a","p"," ","8","0","g">>,
     cost |-> 110,
     cms_name |-> <<"D","r"," ","S","."," ","W","o","n","g","'","s"," ","S","u","l","f","u","r"," ","S","o","a","p"," ","8","0","g">>],
    \* 2: "dr. s. wong's sulfur moisturising soap 80g" -> 1.18, "Dr S. Wong's Sulfur Soap with Moisturizer 80g"
    [pattern |-> <<"d","r","."," ","s","."," ","w","o","n","g","'","s"," ","s","u","l","f","u","r"," ","m","o","i","s","t","u","r","i","s","i","n","g"," ","s","o","a","p"," ","8","0","g">>,
     cost |-> 118,
     cms_name |-> <<"D","r"," ","S","."," ","W","o","n","g","'","s"," ","S","u","l","f","u","r"," ","S","o","a","p"," ","w","i","t","h"," ","M","o","i","s","t","u","r","i","z","e","r"," ","8","0","g">>],
    \* 3: "renew placenta classic herbal beauty soap 135g" -> 2.50, "Renew Placenta Classic Herbal Beauty Soap 135g"
    [pattern |-> <<"r","e","n","e","w"," ","p","l","a","c","e","n","t","a"," ","c","l","a","s","s","i","c"," ","h","e","r","b","a","l"," ","b","e","a","u","t","y"," ","s","o","a","p"," ","1","3","5","g">>,
     cost |-> 250,
     cms_name |-> <<"R","e","n","e","w"," ","P","l","a","c","e","n","t","a"," ","C","l","a","s","s","i","c"," ","H","e","r","b","a","l"," ","B","e","a","u","t","y"," ","S","o","a","p"," ","1","3","5","g">>],
    \* 4: "renew placenta white herbal beauty soap 135g" -> 2.50, "Renew Placenta White Skin Lightening Soap 135g"
    [pattern |-> <<"r","e","n","e","w"," ","p","l","a","c","e","n","t","a"," ","w","h","i","t","e"," ","h","e","r","b","a","l"," ","b","e","a","u","t","y"," ","s","o","a","p"," ","1","3","5","g">>,
     cost |-> 250,
     cms_name |-> <<"R","e","n","e","w"," ","P","l","a","c","e","n","t","a"," ","W","h","i","t","e"," ","S","k","i","n"," ","L","i","g","h","t","e","n","i","n","g"," ","S","o","a","p"," ","1","3","5","g">>],
    \* 5: "c. y. gabriel special pink soap 135g" -> 1.14, "C.Y. Gabriel Special Pink Lightening & Brightening Beauty Soap 135g"
    [pattern |-> <<"c","."," ","y","."," ","g","a","b","r","i","e","l"," ","s","p","e","c","i","a","l"," ","p","i","n","k"," ","s","o","a","p"," ","1","3","5","g">>,
     cost |-> 114,
     cms_name |-> <<"C",".","Y","."," ","G","a","b","r","i","e","l"," ","S","p","e","c","i","a","l"," ","P","i","n","k"," ","L","i","g","h","t","e","n","i","n","g"," ","&"," ","B","r","i","g","h","t","e","n","i","n","g"," ","B","e","a","u","t","y"," ","S","o","a","p"," ","1","3","5","g">>],
    \* 6: "c. y. gabriel special green soap 135g" -> 1.14, "C.Y. Gabriel Special Green Lightening & Brightening Beauty Soap 135g"
    [pattern |-> <<"c","."," ","y","."," ","g","a","b","r","i","e","l"," ","s","p","e","c","i","a","l"," ","g","r","e","e","n"," ","s","o","a","p"," ","1","3","5","g">>,
     cost |-> 114,
     cms_name |-> <<"C",".","Y","."," ","G","a","b","r","i","e","l"," ","S","p","e","c","i","a","l"," ","G","r","e","e","n"," ","L","i","g","h","t","e","n","i","n","g"," ","&"," ","B","r","i","g","h","t","e","n","i","n","g"," ","B","e","a","u","t","y"," ","S","o","a","p"," ","1","3","5","g">>],
    \* 7: "c. y. gabriel papaya soap 135g" -> 1.14, "C.Y. Gabriel Papaya Lightening & Brightening Beauty Soap 135g"
    [pattern |-> <<"c","."," ","y","."," ","g","a","b","r","i","e","l"," ","p","a","p","a","y","a"," ","s","o","a","p"," ","1","3","5","g">>,
     cost |-> 114,
     cms_name |-> <<"C",".","Y","."," ","G","a","b","r","i","e","l"," ","P","a","p","a","y","a"," ","L","i","g","h","t","e","n","i","n","g"," ","&"," ","B","r","i","g","h","t","e","n","i","n","g"," ","B","e","a","u","t","y"," ","S","o","a","p"," ","1","3","5","g">>],
    \* 8: "c. y. gabriel kojic soap 135g" -> 1.61, "C.Y. Gabriel Kojic with Glutathione Skin Lightening & Brightening Soap 135g"
    [pattern |-> <<"c","."," ","y","."," ","g","a","b","r","i","e","l"," ","k","o","j","i","c"," ","s","o","a","p"," ","1","3","5","g">>,
     cost |-> 161,
     cms_name |-> <<"C",".","Y","."," ","G","a","b","r","i","e","l"," ","K","o","j","i","c"," ","w","i","t","h"," ","G","l","u","t","a","t","h","i","o","n","e"," ","S","k","i","n"," ","L","i","g","h","t","e","n","i","n","g"," ","&"," ","B","r","i","g","h","t","e","n","i","n","g"," ","S","o","a","p"," ","1","3","5","g">>],
    \* 9: "closeup red hot toothpaste" -> 3.31, "Closeup Red Hot Toothpaste 95ml (PH)"
    [pattern |-> <<"c","l","o","s","e","u","p"," ","r","e","d"," ","h","o","t"," ","t","o","o","t","h","p","a","s","t","e">>,
     cost |-> 331,
     cms_name |-> <<"C","l","o","s","e","u","p"," ","R","e","d"," ","H","o","t"," ","T","o","o","t","h","p","a","s","t","e"," ","9","5","m","l"," ","(","P","H",")">>],
    \* 10: "closeup menthol fresh toothpaste" -> 3.31, "Closeup Menthol Fresh Toothpaste 95ml (PH)"
    [pattern |-> <<"c","l","o","s","e","u","p"," ","m","e","n","t","h","o","l"," ","f","r","e","s","h"," ","t","o","o","t","h","p","a","s","t","e">>,
     cost |-> 331,
     cms_name |-> <<"C","l","o","s","e","u","p"," ","M","e","n","t","h","o","l"," ","F","r","e","s","h"," ","T","o","o","t","h","p","a","s","t","e"," ","9","5","m","l"," ","(","P","H",")">>],
    \* 11: "closeup ever fresh toothpaste" -> 3.31, "Closeup Menthol Fresh Toothpaste 95ml (PH)"
    [pattern |-> <<"c","l","o","s","e","u","p"," ","e","v","e","r"," ","f","r","e","s","h"," ","t","o","o","t","h","p","a","s","t","e">>,
     cost |-> 331,
     cms_name |-> <<"C","l","o","s","e","u","p"," ","M","e","n","t","h","o","l"," ","F","r","e","s","h"," ","T","o","o","t","h","p","a","s","t","e"," ","9","5","m","l"," ","(","P","H",")">>],
    \* 12: "glutamax men total oil control facial face wash 100g" -> 4.20, "GlutaMAX Men Facial Wash 100g"
    [pattern |-> <<"g","l","u","t","a","m","a","x"," ","m","e","n"," ","t","o","t","a","l"," ","o","i","l"," ","c","o","n","t","r","o","l"," ","f","a","c","i","a","l"," ","f","a","c","e"," ","w","a","s","h"," ","1","0","0","g">>,
     cost |-> 420,
     cms_name |-> <<"G","l","u","t","a","M","A","X"," ","M","e","n"," ","F","a","c","i","a","l"," ","W","a","s","h"," ","1","0","0","g">>],
    \* 13: "kojie san soap 45g" -> 0.81, "Kojie San Soap 45g"
    [pattern |-> <<"k","o","j","i","e"," ","s","a","n"," ","s","o","a","p"," ","4","5","g">>,
     cost |-> 81,
     cms_name |-> <<"K","o","j","i","e"," ","S","a","n"," ","S","o","a","p"," ","4","5","g">>]
>>

(* SPECIAL_MATCHING_RULES, in table order; each pattern as its segments. *)
SPECIAL_MATCHING_RULES == <<
    \* 1: r"belo.*kojic.*tranexamic.*bar.*65g\s*x\s*3" -> "Belo Kojic Acid & Tranexamic Acid Intensive Lightening & Brightening Bar 65g x 2 + 1 FREE"
    [pattern |-> <<<<[kind |-> "lit", chars |-> <<"b","e","l","o">>]>>, <<[kind |-> "lit", chars |-> <<"k","o","j","i","c">>]>>, <<[kind |-> "lit", chars |-> <<"t","r","a","n","e","x","a","m","i","c">>]>>, <<[kind |-> "lit", chars |-> <<"b","a","r">>]>>, <<[kind |-> "lit", chars |-> <<"6","5","g">>], [kind |-> "spaces", chars |-> <<>>], [kind |-> "lit", chars |-> <<"x">>], [kind |-> "spaces", chars |-> <<>>], [kind |-> "lit", chars |-> <<"3">>]>>>>,
     cms_name |-> <<"B","e","l","o"," ","K","o","j","i","c"," ","A","c","i","d"," ","&"," ","T","r","a","n","e","x","a","m","i","c"," ","A","c","i","d"," ","I","n","t","e","n","s","i","v","e"," ","L","i","g","h","t","e","n","i","n","g"," ","&"," ","B","r","i","g","h","t","e","n","i","n","g"," ","B","a","r"," ","6","5","g"," ","x"," ","2"," ","+"," ","1"," ","F","R","E","E">>],
    \* 2: r"belo.*kojic.*tranexamic.*extra moisture.*65g\s*x\s*2" -> "Belo Kojic Acid & Tranexamic Acid EXTRA MOISTURE Bar 65g x 2"
    [pattern |-> <<<<[kind |-> "lit", chars |-> <<"b","e","l","o">>]>>, <<[kind |-> "lit", chars |-> <<"k","o","j","i","c">>]>>, <<[kind |-> "lit", chars |-> <<"t","r","a","n","e","x","a","m","i","c">>]>>, <<[kind |-> "lit", chars |-> <<"e","x","t","r","a"," ","m","o","i","s","t","u","r","e">>]>>, <<[kind |-> "lit", chars |-> <<"6","5","g">>], [kind |-> "spaces", chars |-> <<>>], [kind |-> "lit", chars |-> <<"x">>], [kind |-> "spaces", chars |-> <<>>], [kind |-> "lit", chars |-> <<"2">>]>>>>,
     cms_name |-> <<"B","e","l","o"," ","K","o","j","i","c"," ","A","c","i","d"," ","&"," ","T","r","a","n","e","x","a","m","i","c"," ","A","c","i","d"," ","E","X","T","R","A"," ","M","O","I","S","T","U","R","E"," ","B","a","r"," ","6","5","g"," ","x"," ","2">>],
    \* 3: r"belo.*kojic.*tranexamic.*body wash.*475ml" -> "Belo Kojic Acid & Tranexamic Acid Skin Lightening & Brightening Body Wash 475ml"
    [pattern |-> <<<<[kind |-> "lit", chars |-> <<"b","e","l","o">>]>>, <<[kind |-> "lit", chars |-> <<"k","o","j","i","c">>]>>, <<[kind |-> "lit", chars |-> <<"t","r","a","n","e","x","a","m","i","c">>]>>, <<[kind |-> "lit", chars |-> <<"b","o","d","y"," ","w","a","s","h">>]>>, <<[kind |-> "lit", chars |-> <<"4","7","5","m","l">>]>>>>,
     cms_name |-> <<"B","e","l","o"," ","K","o","j","i","c"," ","A","c","i","d"," ","&"," ","T","r","a","n","e","x","a","m","i","c"," ","A","c","i","d"," ","S","k","i","n"," ","L","i","g","h","t","e","n","i","n","g"," ","&"," ","B","r","i","g","h","t","e","n","i","n","g"," ","B","o","d","y"," ","W","a","s","h"," ","4","7","5","m","l">>],
    \* 4: r"gluta-c.*facial.*toner.*100ml" -> "Gluta-C Skin Lightening & Brightening Facial Toner 100ml"
    [pattern |-> <<<<[kind |-> "lit", chars |-> <<"g","l","u","t","a","-","c">>]>>, <<[kind |-> "lit", chars |-> <<"f","a","c","i","a","l">>]>>, <<[kind |-> "lit", chars |-> <<"t","o","n","e","r">>]>>, <<[kind |-> "lit", chars |-> <<"1","0","0","m","l">>]>>>>,
     cms_name |-> <<"G","l","u","t","a","-","C"," ","S","k","i","n"," ","L","i","g","h","t","e","n","i","n","g"," ","&"," ","B","r","i","g","h","t","e","n","i","n","g"," ","F","a","c","i","a","l"," ","T","o","n","e","r"," ","1","0","0","m","l">>],
    \* 5: r"gluta-c.*facial.*night.*30ml" -> "Gluta-C Skin Lightening & Brightening Facial NIGHT REPAIR Serum 30ml"
    [pattern |-> <<<<[kind |-> "lit", chars |-> <<"g","l","u","t","a","-","c">>]>>, <<[kind |-> "lit", chars |-> <<"f","a","c","i","a","l">>]>>, <<[kind |-> "lit", chars |-> <<"n","i","g","h","t">>]>>, <<[kind |-> "lit", chars |-> <<"3","0","m","l">>]>>>>,
     cms_name |-> <<"G","l","u","t","a","-","C"," ","S","k","i","n"," ","L","i","g","h","t","e","n","i","n","g"," ","&"," ","B","r","i","g","h","t","e","n","i","n","g"," ","F","a","c","i","a","l"," ","N","I","G","H","T"," ","R","E","P","A","I","R"," ","S","e","r","u","m"," ","3","0","m","l">>],
    \* 6: r"gluta-c.*facial.*day.*cream.*30ml" -> "Gluta-C Skin Lightening & Brightening Facial DAY Cream 30ml"
    [pattern |-> <<<<[kind |-> "lit", chars |-> <<"g","l","u","t","a","-","c">>]>>, <<[kind |-> "lit", chars |-> <<"f","a","c","i","a","l">>]>>, <<[kind |-> "lit", chars |-> <<"d","a","y">>]>>, <<[kind |-> "lit", chars |-> <<"c","r","e","a","m">>]>>, <<[kind |-> "lit", chars |-> <<"3","0","m","l">>]>>>>,
     cms_name |-> <<"G","l","u","t","a","-","C"," ","S","k","i","n"," ","L","i","g","h","t","e","n","i","n","g"," ","&"," ","B","r","i","g","h","t","e","n","i","n","g"," ","F","a","c","i","a","l"," ","D","A","Y"," ","C","r","e","a","m"," ","3","0","m","l">>],
    \* 7: r"gluta\s*lotion.*spf.*300ml" -> "Gluta-C Skin Lightening & Brightening Body Lotion 300ml"
    [pattern |-> <<<<[kind |-> "lit", chars |-> <<"g","l","u","t","a">>], [kind |-> "spaces", chars |-> <<>>], [kind |-> "lit", chars |-> <<"l","o","t","i","o","n">>]>>, <<[kind |-> "lit", chars |-> <<"s","p","f">>]>>, <<[kind |-> "lit", chars |-> <<"3","0","0","m","l">>]>>>>,
     cms_name |-> <<"G","l","u","t","a","-","C"," ","S","k","i","n"," ","L","i","g","h","t","e","n","i","n","g"," ","&"," ","B","r","i","g","h","t","e","n","i","n","g"," ","B","o","d","y"," ","L","o","t","i","o","n"," ","3","0","0","m","l">>],
    \* 8: r"gluta.*kojic.*body lotion.*spf.*300ml" -> "Gluta-C with Kojic Plus Skin Lightening & Brightening Body Lotion 300ml"
    [pattern |-> <<<<[kind |-> "lit", chars |-> <<"g","l","u","t","a">>]>>, <<[kind |-> "lit", chars |-> <<"k","o","j","i","c">>]>>, <<[kind |-> "lit", chars |-> <<"b","o","d","y"," ","l","o","t","i","o","n">>]>>, <<[kind |-> "lit", chars |-> <<"s","p","f">>]>>, <<[kind |-> "lit", chars |-> <<"3","0","0","m","l">>]>>>>,
     cms_name |-> <<"G","l","u","t","a","-","C"," ","w","i","t","h"," ","K","o","j","i","c"," ","P","l","u","s"," ","S","k","i","n"," ","L","i","g","h","t","e","n","i","n","g"," ","&"," ","B","r","i","g","h","t","e","n","i","n","g"," ","B","o","d","y"," ","L","o","t","i","o","n"," ","3","0","0","m","l">>],
    \* 9: r"kojie san.*body lotion.*spf25.*250" -> "Kojie San KOJIC Skin Lightening & Brightening Lotion SPF25 250ml"
    [pattern |-> <<<<[kind |-> "lit", chars |-> <<"k","o","j","i","e"," ","s","a","n">>]>>, <<[kind |-> "lit", chars |-> <<"b","o","d","y"," ","l","o","t","i","o","n">>]>>, <<[kind |-> "lit", chars |-> <<"s","p","f","2","5">>]>>, <<[kind |-> "lit", chars |-> <<"2","5","0">>]>>>>,
     cms_name |-> <<"K","o","j","i","e"," ","S","a","n"," ","K","O","J","I","C"," ","S","k","i","n"," ","L","i","g","h","t","e","n","i","n","g"," ","&"," ","B","r","i","g","h","t","e","n","i","n","g"," ","L","o","t","i","o","n"," ","S","P","F","2","5"," ","2","5","0","m","l">>],
    \* 10: r"kojie san.*body wash.*300ml" -> "Kojie San Skin Lightening Body Wash 300ml"
    [pattern |-> <<<<[kind |-> "lit", chars |-> <<"k","o","j","i","e"," ","s","a","n">>]>>, <<[kind |-> "lit", chars |-> <<"b","o","d","y"," ","w","a","s","h">>]>>, <<[kind |-> "lit", chars |-> <<"3","0","0","m","l">>]>>>>,
     cms_name |-> <<"K","o","j","i","e"," ","S","a","n"," ","S","k","i","n"," ","L","i","g","h","t","e","n","i","n","g"," ","B","o","d","y"," ","W","a","s","h"," ","3","0","0","m","l">>],
    \* 11: r"kojie san.*facial.*wash.*100g" -> "Kojie San Skin Lightening & Brightening Facial Wash 100g"
    [pattern |-> <<<<[kind |-> "lit", chars |-> <<"k","o","j","i","e"," ","s","a","n">>]>>, <<[kind |-> "lit", chars |-> <<"f","a","c","i","a","l">>]>>, <<[kind |-> "lit", chars |-> <<"w","a","s","h">>]>>, <<[kind |-> "lit", chars |-> <<"1","0","0","g">>]>>>>,
     cms_name |-> <<"K","o","j","i","e"," ","S","a","n"," ","S","k","i","n"," ","L","i","g","h","t","e","n","i","n","g"," ","&"," ","B","r","i","g","h","t","e","n","i","n","g"," ","F","a","c","i","a","l"," ","W","a","s","h"," ","1","0","0","g">>],
    \* 12: r"belo.*papaya.*soap.*65g\s*x\s*3" -> "Belo Essentials Skin Lightening & Brightening Papaya Soap 65g x 2 + 1 FREE"
    [pattern |-> <<<<[kind |-> "lit", chars |-> <<"b","e","l","o">>]>>, <<[kind |-> "lit", chars |-> <<"p","a","p","a","y","a">>]>>, <<[kind |-> "lit", chars |-> <<"s","o","a","p">>]>>, <<[kind |-> "lit", chars |-> <<"6","5","g">>], [kind |-> "spaces", chars |-> <<>>], [kind |-> "lit", chars |-> <<"x">>], [kind |-> "spaces", chars |-> <<>>], [kind |-> "lit", chars |-> <<"3">>]>>>>,
     cms_name |-> <<"B","e","l","o"," ","E","s","s","e","n","t","i","a","l","s"," ","S","k","i","n"," ","L","i","g","h","t","e","n","i","n","g"," ","&"," ","B","r","i","g","h","t","e","n","i","n","g"," ","P","a","p","a","y","a"," ","S","o","a","p"," ","6","5","g"," ","x"," ","2"," ","+"," ","1"," ","F","R","E","E">>],
    \* 13: r"belo.*papaya.*body lotion.*spf30.*200ml" -> "Belo Essentials Skin Lightening & Brightening Papaya Lotion with SPF30 200ml"
    [pattern |-> <<<<[kind |-> "lit", chars |-> <<"b","e","l","o">>]>>, <<[kind |-> "lit", chars |-> <<"p","a","p","a","y","a">>]>>, <<[kind |-> "lit", chars |-> <<"b","o","d","y"," ","l","o","t","i","o","n">>]>>, <<[kind |-> "lit", chars |-> <<"s","p","f","3","0">>]>>, <<[kind |-> "lit", chars |-> <<"2","0","0","m","l">>]>>>>,
     cms_name |-> <<"B","e","l","o"," ","E","s","s","e","n","t","i","a","l","s"," ","S","k","i","n"," ","L","i","g","h","t","e","n","i","n","g"," ","&"," ","B","r","i","g","h","t","e","n","i","n","g"," ","P","a","p","a","y","a"," ","L","o","t","i","o","n"," ","w","i","t","h"," ","S","P","F","3","0"," ","2","0","0","m","l">>],
    \* 14: r"belo.*skin hydrating.*toner.*100ml" -> "Belo Essentials Skin Hydrating Lightening & Brightening TONER 100ml"
    [pattern |-> <<<<[kind |-> "lit", chars |-> <<"b","e","l","o">>]>>, <<[kind |-> "lit", chars |-> <<"s","k","i","n"," ","h","y","d","r","a","t","i","n","g">>]>>, <<[kind |-> "lit", chars |-> <<"t","o","n","e","r">>]>>, <<[kind |-> "lit", chars |-> <<"1","0","0","m","l">>]>>>>,
     cms_name |-> <<"B","e","l","o"," ","E","s","s","e","n","t","i","a","l","s"," ","S","k","i","n"," ","H","y","d","r","a","t","i","n","g"," ","L","i","g","h","t","e","n","i","n","g"," ","&"," ","B","r","i","g","h","t","e","n","i","n","g"," ","T","O","N","E","R"," ","1","0","0","m","l">>],
    \* 15: r"glutamax.*moisturi[sz]ing.*lotion.*90ml" -> "GlutaMax Lightening & Moisturizing Lotion 90ml"
    [pattern |-> <<<<[kind |-> "lit", chars |-> <<"g","l","u","t","a","m","a","x">>]>>, <<[kind |-> "lit", chars |-> <<"m","o","i","s","t","u","r","i">>], [kind |-> "set", chars |-> <<"s","z">>], [kind |-> "lit", chars |-> <<"i","n","g">>]>>, <<[kind |-> "lit", chars |-> <<"l","o","t","i","o","n">>]>>, <<[kind |-> "lit", chars |-> <<"9","0","m","l">>]>>>>,
     cms_name |-> <<"G","l","u","t","a","M","a","x"," ","L","i","g","h","t","e","n","i","n","g"," ","&"," ","M","o","i","s","t","u","r","i","z","i","n","g"," ","L","o","t","i","o","n"," ","9","0","m","l">>],
    \* 16: r"seoul white.*120g\s*x\s*3" -> "Seoul White Korea Double White Intense Bright Kojic Arbutin 120g x2 + 1 Free"
    [pattern |-> <<<<[kind |-> "lit", chars |-> <<"s","e","o","u","l"," ","w","h","i","t","e">>]>>, <<[kind |-> "lit", chars |-> <<"1","2","0","g">>], [kind |-> "spaces", chars |-> <<>>], [kind |-> "lit", chars |-> <<"x">>], [kind |-> "spaces", chars |-> <<>>], [kind |-> "lit", chars |-> <<"3">>]>>>>,
     cms_name |-> <<"S","e","o","u","l"," ","W","h","i","t","e"," ","K","o","r","e","a"," ","D","o","u","b","l","e"," ","W","h","i","t","e"," ","I","n","t","e","n","s","e"," ","B","r","i","g","h","t"," ","K","o","j","i","c"," ","A","r","b","u","t","i","n"," ","1","2","0","g"," ","x","2"," ","+"," ","1"," ","F","r","e","e">>],
    \* 17: r"silka.*premium.*body wash.*500ml" -> "Silka Papaya Luxe Lightening Body Wash 500ml"
    [pattern |-> <<<<[kind |-> "lit", chars |-> <<"s","i","l","k","a">>]>>, <<[kind |-> "lit", chars |-> <<"p","r","e","m","i","u","m">>]>>, <<[kind |-> "lit", chars |-> <<"b","o","d","y"," ","w","a","s","h">>]>>, <<[kind |-> "lit", chars |-> <<"5","0","0","m","l">>]>>>>,
     cms_name |-> <<"S","i","l","k","a"," ","P","a","p","a","y","a"," ","L","u","x","e"," ","L","i","g","h","t","e","n","i","n","g"," ","B","o","d","y"," ","W","a","s","h"," ","5","0","0","m","l">>],
    \* 18: r"silka.*papaya.*soap.*90g\s*x\s*3" -> "Silka Papaya Skin Lightening & brightening Soap 3 x 90g Soap (Triple Pack)"
    [pattern |-> <<<<[kind |-> "lit", chars |-> <<"s","i","l","k","a">>]>>, <<[kind |-> "lit", chars |-> <<"p","a","p","a","y","a">>]>>, <<[kind |-> "lit", chars |-> <<"s","o","a","p">>]>>, <<[kind |-> "lit", chars |-> <<"9","0","g">>], [kind |-> "spaces", chars |-> <<>>], [kind |-> "lit", chars |-> <<"x">>], [kind |-> "spaces", chars |-> <<>>], [kind |-> "lit", chars |-> <<"3">>]>>>>,
     cms_name |-> <<"S","i","l","k","a"," ","P","a","p","a","y","a"," ","S","k","i","n"," ","L","i","g","h","t","e","n","i","n","g"," ","&"," ","b","r","i","g","h","t","e","n","i","n","g"," ","S","o","a","p"," ","3"," ","x"," ","9","0","g"," ","S","o","a","p"," ","(","T","r","i","p","l","e"," ","P","a","c","k",")">>],
    \* 19: r"glupa glutathione.*whitening soap.*135g" -> "Glupa Glutathione & Papaya Skin Lightening & Brightening Soap 135g - NEW LOWER PRICE!"
    [pattern |-> <<<<[kind |-> "lit", chars |-> <<"g","l","u","p","a"," ","g","l","u","t","a","t","h","i","o","n","e">>]>>, <<[kind |-> "lit", chars |-> <<"w","h","i","t","e","n","i","n","g"," ","s","o","a","p">>]>>, <<[kind |-> "lit", chars |-> <<"1","3","5","g">>]>>>>,
     cms_name |-> <<"G","l","u","p","a"," ","G","l","u","t","a","t","h","i","o","n","e"," ","&"," ","P","a","p","a","y","a"," ","S","k","i","n"," ","L","i","g","h","t","e","n","i","n","g"," ","&"," ","B","r","i","g","h","t","e","n","i","n","g"," ","S","o","a","p"," ","1","3","5","g"," ","-"," ","N","E","W"," ","L","O","W","E","R"," ","P","R","I","C","E","!">>],
    \* 20: r"gluta c kojic plus face and neck cream" -> "Gluta-C with Kojic Plus Lightening & Brightening Face & Neck Cream 25g"
    [pattern |-> <<<<[kind |-> "lit", chars |-> <<"g","l","u","t","a"," ","c"," ","k","o","j","i","c"," ","p","l","u","s"," ","f","a","c","e"," ","a","n","d"," ","n","e","c","k"," ","c","r","e","a","m">>]>>>>,
     cms_name |-> <<"G","l","u","t","a","-","C"," ","w","i","t","h"," ","K","o","j","i","c"," ","P","l","u","s"," ","L","i","g","h","t","e","n","i","n","g"," ","&"," ","B","r","i","g","h","t","e","n","i","n","g"," ","F","a","c","e"," ","&"," ","N","e","c","k"," ","C","r","e","a","m"," ","2","5","g">>],
    \* 21: r"gluta-c facial day cream" -> "Gluta-C Skin Lightening & Brightening Facial DAY Cream 30ml"
    [pattern |-> <<<<[kind |-> "lit", chars |-> <<"g","l","u","t","a","-","c"," ","f","a","c","i","a","l"," ","d","a","y"," ","c","r","e","a","m">>]>>>>,
     cms_name |-> <<"G","l","u","t","a","-","C"," ","S","k","i","n"," ","L","i","g","h","t","e","n","i","n","g"," ","&"," ","B","r","i","g","h","t","e","n","i","n","g"," ","F","a","c","i","a","l"," ","D","A","Y"," ","C","r","e","a","m"," ","3","0","m","l">>],
    \* 22: r"papaya calamansi extract whitening soap" -> "Extract Skin Lightening & Brightening Herbal Soap Papaya Calamansi 125g"
    [pattern |-> <<<<[kind |-> "lit", chars |-> <<"p","a","p","a","y","a"," ","c","a","l","a","m","a","n","s","i"," ","e","x","t","r","a","c","t"," ","w","h","i","t","e","n","i","n","g"," ","s","o","a","p">>]>>>>,
     cms_name |-> <<"E","x","t","r","a","c","t"," ","S","k","i","n"," ","L","i","g","h","t","e","n","i","n","g"," ","&"," ","B","r","i","g","h","t","e","n","i","n","g"," ","H","e","r","b","a","l"," ","S","o","a","p"," ","P","a","p","a","y","a"," ","C","a","l","a","m","a","n","s","i"," ","1","2","5","g">>],
    \* 23: r"kojie san.*lightening.*soap.*3 bars.*100g" -> "Kojie San Skin Lightening & Brightening Soap 100g x 3"
    [pattern |-> <<<<[kind |-> "lit", chars |-> <<"k","o","j","i","e"," ","s","a","n">>]>>, <<[kind |-> "lit", chars |-> <<"l","i","g","h","t","e","n","i","n","g">>]>>, <<[kind |-> "lit", chars |-> <<"s","o","a","p">>]>>, <<[kind |-> "lit", chars |-> <<"3"," ","b","a","r","s">>]>>, <<[kind |-> "lit", chars |-> <<"1","0","0","g">>]>>>>,
     cms_name |-> <<"K","o","j","i","e"," ","S","a","n"," ","S","k","i","n"," ","L","i","g","h","t","e","n","i","n","g"," ","&"," ","B","r","i","g","h","t","e","n","i","n","g"," ","S","o","a","p"," ","1","0","0","g"," ","x"," ","3">>],
    \* 24: r"4 pack extract papaya calamansi" -> "Extract Skin Lightening & Brightening Herbal Soap Papaya Calamansi 125g"
    [pattern |-> <<<<[kind |-> "lit", chars |-> <<"4"," ","p","a","c","k"," ","e","x","t","r","a","c","t"," ","p","a","p","a","y","a"," ","c","a","l","a","m","a","n","s","i">>]>>>>,
     cms_name |-> <<"E","x","t","r","a","c","t"," ","S","k","i","n"," ","L","i","g","h","t","e","n","i","n","g"," ","&"," ","B","r","i","g","h","t","e","n","i","n","g"," ","H","e","r","b","a","l"," ","S","o","a","p"," ","P","a","p","a","y","a"," ","C","a","l","a","m","a","n","s","i"," ","1","2","5","g">>],
    \* 25: r"assorted eskinol facial scrub" -> "Eskinol CLASSIC Lightening & Brightening Face Cleanser 225ml"
    [pattern |-> <<<<[kind |-> "lit", chars |-> <<"a","s","s","o","r","t","e","d"," ","e","s","k","i","n","o","l"," ","f","a","c","i","a","l"," ","s","c","r","u","b">>]>>>>,
     cms_name |-> <<"E","s","k","i","n","o","l"," ","C","L","A","S","S","I","C"," ","L","i","g","h","t","e","n","i","n","g"," ","&"," ","B","r","i","g","h","t","e","n","i","n","g"," ","F","a","c","e"," ","C","l","e","a","n","s","e","r"," ","2","2","5","m","l">>],
    \* 26: r"gluta-c.*underarm.*bikini.*whitening.*gel.*cream" -> "Gluta-C Intense Lightening & Brightening Underarm & Bikini Gel 20ml"
    [pattern |-> <<<<[kind |-> "lit", chars |-> <<"g","l","u","t","a","-","c">>]>>, <<[kind |-> "lit", chars |-> <<"u","n","d","e","r","a","r","m">>]>>, <<[kind |-> "lit", chars |-> <<"b","i","k","i","n","i">>]>>, <<[kind |-> "lit", chars |-> <<"w","h","i","t","e","n","i","n","g">>]>>, <<[kind |-> "lit", chars |-> <<"g","e","l">>]>>, <<[kind |-> "lit", chars |-> <<"c","r","e","a","m">>]>>>>,
     cms_name |-> <<"G","l","u","t","a","-","C"," ","I","n","t","e","n","s","e"," ","L","i","g","h","t","e","n","i","n","g"," ","&"," ","B","r","i","g","h","t","e","n","i","n","g"," ","U","n","d","e","r","a","r","m"," ","&"," ","B","i","k","i","n","i"," ","G","e","l"," ","2","0","m","l">>]
>>
----------------------------------------------------------------------------
(* manual_product_mappings.py: the helpers. *)

\* Python's None where the other values are TLA+ strings.
None == "None"

\* A pandas NaN in the cms_product_code column.
NaN == "NaN"

\* An amount of money: num/den pence.
Pence(n) == [num |-> n, den |-> 1]

\* The indices at which a run of digits starts.
DigitRunStarts(s) ==
    {i \in 1..Len(s) : IsDigit(s[i]) /\ (i = 1 \/ ~IsDigit(s[i - 1]))}

\* parse_bracket_selection: re.search(r'\[([^\]]+)\]$', title).  found is
\* "bracket_match is not None"; the variant is never empty when found.
parse_bracket_selection(ebay_title) ==
    LET n == Len(ebay_title)
        opens == {i \in 1..(n - 2) :
                    /\ ebay_title[i] = "["
                    /\ ebay_title[n] = "]"
                    /\ \A k \in (i + 1)..(n - 1) : ebay_title[k] # "]"}
    IN IF opens = {}
       THEN [cleaned_title |-> ebay_title, variant |-> <<>>, found |-> FALSE]
       ELSE LET start == Min(opens)
            IN [cleaned_title |-> Strip(Slice(ebay_title, 1, start - 1)),
                variant |-> Slice(ebay_title, start + 1, n - 1),
                found |-> TRUE]

\* The product types in the order of the types dict; each pattern is
\* \b(alt|alt)\b and an alternative is its words, separated by \s*.
ProductTypes == <<
    [type_name |-> "soap",      alts |-> << << <<"s","o","a","p">> >> >>],
    [type_name |-> "lotion",    alts |-> << << <<"l","o","t","i","o","n">> >> >>],
    [type_name |-> "toner",     alts |-> << << <<"t","o","n","e","r">> >> >>],
    [type_name |-> "face wash", alts |-> << << <<"f","a","c","e">>, <<"w","a","s","h">> >>,
                                           << <<"f","a","c","i","a","l">>, <<"w","a","s","h">> >> >>],
    [type_name |-> "body wash", alts |-> << << <<"b","o","d","y">>, <<"w","a","s","h">> >> >>],
    [type_name |-> "cream",     alts |-> << << <<"c","r","e","a","m">> >>,
                                           << <<"c","r","e","m","e">> >> >>],
    [type_name |-> "deodorant", alts |-> << << <<"d","e","o","d","o","r","a","n","t">> >> >>],
    [type_name |-> "cleanser",  alts |-> << << <<"c","l","e","a","n","s","e","r">> >> >>],
    [type_name |-> "serum",     alts |-> << << <<"s","e","r","u","m">> >> >>]
>>

\* The index after words[k..], separated by \s*, matched from index i; 0 if
\* they do not match there.
RECURSIVE WordsEnd(_, _, _, _)
WordsEnd(s, i, words, k) ==
    IF k > Len(words) THEN i
    ELSE LET j == IF k = 1 THEN i ELSE SkipSpaces(s, i)
         IN IF LitAt(s, j, words[k])
            THEN WordsEnd(s, j + Len(words[k]), words, k + 1)
            ELSE 0

\* re.search(r'\b(alt|..)\b', s) is not None
TypePatternFound(s, alts) ==
    \E i \in 1..Len(s) : \E a \in 1..Len(alts) :
        LET e == WordsEnd(s, i, alts[a], 1)
        IN e # 0 /\ WordBoundary(s, i) /\ WordBoundary(s, e)

\* normalize_product_type: the first type, in dict order, whose pattern is
\* found in the lowercased title.
normalize_product_type(title) ==
    Local(Lower(title), LAMBDA title_lower :
        LET hits == {k \in 1..Len(ProductTypes) :
                        TypePatternFound(title_lower, ProductTypes[k].alts)}
        IN IF hits = {} THEN None ELSE ProductTypes[Min(hits)].type_name)

\* The value of 'quantity' when no quantity was found (Python's None).
NoQuantity == 0 - 1

\* extract_size_and_quantity.  size is <<>> for None.
\*   size: re.search(r'(\d+)\s*(g|ml|mg)', lower)
\*   quantity: re.search(r'x\s*(\d+)', lower)
extract_size_and_quantity(title) ==
    Local(Lower(title), LAMBDA s :
    LET UnitAt(j) == IF LitAt(s, j, <<"g">>) THEN <<"g">>
                     ELSE IF LitAt(s, j, <<"m","l">>) THEN <<"m","l">>
                     ELSE IF LitAt(s, j, <<"m","g">>) THEN <<"m","g">>
                     ELSE <<>>
        sizeStarts == {i \in DigitRunStarts(s) :
                         UnitAt(SkipSpaces(s, SkipDigits(s, i))) # <<>>}
        size == IF sizeStarts = {} THEN <<>>
                ELSE LET i == Min(sizeStarts)
                         e == SkipDigits(s, i)
                     IN Slice(s, i, e - 1) \o UnitAt(SkipSpaces(s, e))
        qtyStarts == {i \in 1..Len(s) :
                        /\ s[i] = "x"
                        /\ SkipSpaces(s, i + 1) <= Len(s)
                        /\ IsDigit(s[SkipSpaces(s, i + 1)])}
        qty == IF qtyStarts = {} THEN NoQuantity
               ELSE LET d == SkipSpaces(s, Min(qtyStarts) + 1)
                    IN IntOf(Slice(s, d, SkipDigits(s, d) - 1))
    IN [size |-> size, quantity |-> qty, is_multipack |-> qtyStarts # {}])

\* str(count) for a count below 100.
IntToStr(n) ==
    LET digit(d) == CHOOSE c \in DOMAIN DigitVal : DigitVal[c] = d
    IN IF n < 10 THEN <<digit(n)>> ELSE <<digit(n \div 10), digit(n % 10)>>

\* The fault "only the first alternative of the pattern is counted".
CountVariants_PureWhiteOnly(s) ==
    Cardinality({i \in 1..Len(s) :
        LitAt(s, i, <<"p","u","r","e"," ","w","h","i","t","e">>)})

\* len(re.findall(r'(pure white|fresh green|floral pink)', s)): no two
\* occurrences of these texts overlap, so every occurrence is counted.
CountVariants(s) ==
    Cardinality({i \in 1..Len(s) :
        \/ LitAt(s, i, <<"p","u","r","e"," ","w","h","i","t","e">>)
        \/ LitAt(s, i, <<"f","r","e","s","h"," ","g","r","e","e","n">>)
        \/ LitAt(s, i, <<"f","l","o","r","a","l"," ","p","i","n","k">>)})

\* The cost in pence of one Safeguard bar of the bundle branch (1.52).
SafeguardBarCost == 152

\* get_manual_cost.  found is "the result is not None".
get_manual_cost(product_name) ==
    Local(Lower(product_name), LAMBDA product_lower :
    LET has(lit) == Contains(product_lower, lit)
        \* MANUAL_COST_MAPPINGS[<the key of entry k>]
        info(k) == [found |-> TRUE,
                    cost |-> Pence(MANUAL_COST_MAPPINGS[k].cost),
                    cms_name |-> MANUAL_COST_MAPPINGS[k].cms_name]
        direct == {k \in 1..Len(MANUAL_COST_MAPPINGS) :
                     has(MANUAL_COST_MAPPINGS[k].pattern)}
        none == [found |-> FALSE, cost |-> Pence(0), cms_name |-> <<>>]
        closeup == /\ has(<<"c","l","o","s","e","u","p">>)
                   /\ has(<<"t","o","o","t","h","p","a","s","t","e">>)
        gabriel == \/ has(<<"c","."," ","y","."," ","g","a","b","r","i","e","l">>)
                   \/ has(<<"c",".","y","."," ","g","a","b","r","i","e","l">>)
        count == CountVariants(product_lower)
    IN IF direct # {} THEN info(Min(direct))
       ELSE IF closeup /\ has(<<"r","e","d"," ","h","o","t">>)
            THEN info(9)    \* "closeup red hot toothpaste"
       ELSE IF closeup /\ (\/ has(<<"m","e","n","t","h","o","l">>)
                           \/ has(<<"e","v","e","r"," ","f","r","e","s","h">>))
            THEN info(10)   \* "closeup menthol fresh toothpaste"
       ELSE IF gabriel /\ has(<<"k","o","j","i","c">>)
            THEN info(8)    \* "c. y. gabriel kojic soap 135g"
       ELSE IF gabriel /\ has(<<"p","i","n","k">>)
            THEN info(5)    \* "c. y. gabriel special pink soap 135g"
       ELSE IF gabriel /\ has(<<"g","r","e","e","n">>)
            THEN info(6)    \* "c. y. gabriel special green soap 135g"
       ELSE IF gabriel /\ has(<<"p","a","p","a","y","a">>)
            THEN info(7)    \* "c. y. gabriel papaya soap 135g"
       ELSE IF /\ has(<<"s","a","f","e","g","u","a","r","d"," ","b","u","n","d","l","e"," ","p","a","c","k">>)
               /\ has(<<"1","2","5","g">>)
               /\ count > 1
            THEN [found |-> TRUE,
                  cost |-> Pence(SafeguardBarCost * count),
                  cms_name |-> <<"S","a","f","e","g","u","a","r","d"," ","B","u","n","d","l","e"," ","P","a","c","k"," ">>
                               \o IntToStr(count) \o <<" ","b","a","r","s">>]
       ELSE none)

\* ASSORTED_COSMETICS_BRANDS: "flawlessly u", "flawlessly you"
ASSORTED_COSMETICS_BRANDS == <<
    <<"f","l","a","w","l","e","s","s","l","y"," ","u">>,
    <<"f","l","a","w","l","e","s","s","l","y"," ","y","o","u">>
>>

\* The fault "the title is not lowercased": the token is looked for in the
\* title as written.
is_assorted_cosmetics_CaseSensitive(product_name) ==
    \E k \in 1..Len(ASSORTED_COSMETICS_BRANDS) :
        Contains(product_name, ASSORTED_COSMETICS_BRANDS[k])

\* is_assorted_cosmetics
is_assorted_cosmetics(product_name) ==
    \E product_lower \in {Lower(product_name)} :
        \E k \in 1..Len(ASSORTED_COSMETICS_BRANDS) :
            Contains(product_lower, ASSORTED_COSMETICS_BRANDS[k])

\* get_flawlessly_u_unit_cost: box_price / units of FLAWLESSLY_U_BOX_PRICES,
\* in pence; the default is 1.50.
get_flawlessly_u_unit_cost(product_name) ==
    Local(Lower(product_name), LAMBDA product_lower :
    LET has(lit) == Contains(product_lower, lit)
    IN IF has(<<"s","o","a","p">>)
       THEN IF has(<<"g","r","e","e","n"," ","p","a","p","a","y","a">>)
            THEN [num |-> 11156, den |-> 72]
            ELSE IF has(<<"k","o","j","i","c">>) /\ has(<<"g","l","u","t","a","t","h","i","o","n","e">>)
            THEN [num |-> 8168, den |-> 48 * 2]
            ELSE [num |-> 9723, den |-> 72]
       ELSE IF has(<<"l","o","t","i","o","n">>) /\ has(<<"p","u","m","p">>)
       THEN [num |-> 8852, den |-> 12]
       ELSE Pence(150))

\* apply_special_matching_rule: the index of the first rule, in table
\* order, whose pattern is found in the lowercased title; 0 for None.
apply_special_matching_rule(ebay_title) ==
    Local(Lower(ebay_title), LAMBDA ebay_lower :
        LET hits == {k \in 1..Len(SPECIAL_MATCHING_RULES) :
                        RegexSearch(SPECIAL_MATCHING_RULES[k].pattern, ebay_lower)}
        IN IF hits = {} THEN 0 ELSE Min(hits))

\* The canonical names of the two Extract set products.
ExtractSetSoap ==
    \* "Extract Skin Lightening & Brightening Herbal Soap Papaya Calamansi 125g"
    <<"E","x","t","r","a","c","t"," ","S","k","i","n"," ","L","i","g","h","t","e","n","i","n","g"," ","&"," ","B","r","i","g","h","t","e","n","i","n","g"," ","H","e","r","b","a","l"," ","S","o","a","p"," ","P","a","p","a","y","a"," ","C","a","l","a","m","a","n","s","i"," ","1","2","5","g">>

ExtractSetLotion ==
    \* "Extract Lightening & Brightening Papaya Calamansi Lotion 200ml"
    <<"E","x","t","r","a","c","t"," ","L","i","g","h","t","e","n","i","n","g"," ","&"," ","B","r","i","g","h","t","e","n","i","n","g"," ","P","a","p","a","y","a"," ","C","a","l","a","m","a","n","s","i"," ","L","o","t","i","o","n"," ","2","0","0","m","l">>

\* handle_product_sets.  is_set is "the result is not None".
handle_product_sets(ebay_title) ==
    Local(Lower(ebay_title), LAMBDA title_lower :
    LET has(lit) == Contains(title_lower, lit)
    IN IF has(<<"e","x","t","r","a","c","t">>) /\ has(<<"&">>) /\ has(<<"s","e","t">>)
       THEN [is_set |-> TRUE,
             products |->
                (IF has(<<"s","o","a","p">>) /\ has(<<"1","2","5","g">>)
                 THEN << [name |-> ExtractSetSoap, type |-> "soap"] >> ELSE <<>>)
                \o
                (IF has(<<"l","o","t","i","o","n">>) /\ has(<<"2","0","0","m","l">>)
                 THEN << [name |-> ExtractSetLotion, type |-> "lotion"] >> ELSE <<>>)]
       ELSE [is_set |-> FALSE, products |-> <<>>])

\* re.sub(r'\borange\s+', '', title, flags=re.IGNORECASE): every
\* "orange" at a word boundary goes with the whitespace after it, when
\* there is some (no two such matches overlap).
RemoveOrange(title) ==
    Local(Lower(title), LAMBDA lower :
    LET starts == {i \in 1..Len(title) :
                     /\ WordBoundary(title, i)
                     /\ LitAt(lower, i, <<"o","r","a","n","g","e">>)
                     /\ i + 6 <= Len(title)
                     /\ IsSpace(title[i + 6])}
        removed == UNION {i..(SkipSpaces(title, i + 6) - 1) : i \in starts}
    IN SelectIndices(title, LAMBDA i : i \notin removed))

\* clean_silka_title
clean_silka_title(title) ==
    Local(Lower(title), LAMBDA title_lower :
        IF /\ Contains(title_lower, <<"s","i","l","k","a">>)
           /\ Contains(title_lower, <<"o","r","a","n","g","e">>)
        THEN RemoveOrange(title)
        ELSE title)

----------------------------------------------------------------------------
(* product_catalogue_manager.py: ProductCatalogueManager. *)

\* re.sub(r'-\s*<word>\s*$', '', clean)
StripSuffix(clean, word) ==
    LET hits == {i \in 1..Len(clean) :
                   /\ clean[i] = "-"
                   /\ LET j == SkipSpaces(clean, i + 1)
                      IN /\ LitAt(clean, j, word)
                         /\ SkipSpaces(clean, j + Len(word)) = Len(clean) + 1}
    IN IF hits = {} THEN clean ELSE Slice(clean, 1, Min(hits) - 1)

\* clean_title: lower(), the five suffix substitutions in their order, then
\* ' '.join(clean.split()).
clean_title(title) ==
    Local(Lower(title), LAMBDA c0 :
    Local(StripSuffix(c0, <<"p","h","i","l","i","p","p","i","n","e","s">>), LAMBDA c1 :
    Local(StripSuffix(c1, <<"p","h">>), LAMBDA c2 :
    Local(StripSuffix(c2, <<"u","s","a">>), LAMBDA c3 :
    Local(StripSuffix(c3, <<"u","k">>), LAMBDA c4 :
    Local(StripSuffix(c4, <<"a","u","t","h","e","n","t","i","c">>), LAMBDA c5 :
        JoinSplit(c5)))))))

\* The brands list of extract_brand, in its order.
Brands == <<
    <<"k","o","j","i","e"," ","s","a","n">>, <<"b","e","l","o">>,
    <<"g","l","u","t","a","-","c">>, <<"g","l","u","t","a","m","a","x">>,
    <<"s","i","l","k","a">>, <<"s","a","f","e","g","u","a","r","d">>,
    <<"e","x","t","r","a","c","t">>, <<"m","a","x","i","-","p","e","e","l">>,
    <<"s","k","i","n","w","h","i","t","e">>, <<"g","o","l","d","i","l","o","c","k","s">>,
    <<"c","r","e","a","m"," ","s","i","l","k">>, <<"s","u","n","s","i","l","k">>,
    <<"l","i","k","a","s">>, <<"e","s","k","i","n","o","l">>,
    <<"j","o","h","n","s","o","n","s">>, <<"j","o","h","n","s","o","n","'","s">>,
    <<"b","e","n","c","h">>, <<"p","h"," ","c","a","r","e">>,
    <<"g","r","e","e","n"," ","c","r","o","s","s">>, <<"s","e","o","u","l"," ","w","h","i","t","e">>
>>

\* extract_brand: the first brand of the list contained in the text; <<>>
\* for ''.
extract_brand(text) ==
    Local(Lower(text), LAMBDA text_lower :
        LET hits == {k \in 1..Len(Brands) : Contains(text_lower, Brands[k])}
        IN IF hits = {} THEN <<>> ELSE Brands[Min(hits)])

\* The bonuses and penalties of the scorer, in hundredths.
BrandBonus == 20
BrandPenalty == 30
SizeBonus == 15
SizePenalty == 20
MultipackBonus == 20
MultipackFreeBonus == 15
MultipackQuantityPenalty == 30
MultipackFlagPenalty == 40
BulkCataloguePenalty == 50
BulkListingPenalty == 30
BundleCasePenalty == 80
GreenCataloguePenalty == 50
GreenListingPenalty == 30
PumpPenalty == 30
HydroMoistPenalty == 50
DreamWhitePenalty == 50
BundleSingleBonus == 10

\* The number of matches returned (matches[:5]).
TopMatches == 5

\* The fault "the adjustment is not added": x + h/100 as x.
AddHundredths_Dropped(x, h) == x

\* A score num/den plus h hundredths; den is a multiple of 100.
AddHundredths(x, h) == [num |-> x.num + h * (x.den \div 100), den |-> x.den]

\* The fault "the upper clamp is left out": min(x, 1.0) as x.
MinOne_Unclamped(x) == x

\* min(x, 1.0) and max(0, x) of a score.
MinOne(x) == IF x.num > x.den THEN [num |-> x.den, den |-> x.den] ELSE x
MaxZero(x) == IF x.num < 0 THEN [num |-> 0, den |-> x.den] ELSE x

\* a >= b, a = b for scores and confidences.
ScoreGeq(a, b) == a.num * b.den >= b.num * a.den
ScoreEq(a, b) == a.num * b.den = b.num * a.den

\* The confidence 1.0 of the override stages.
One == [num |-> 1, den |-> 1]

\* The fault "a missing brand counts as a different brand": 0.3 is taken
\* off whenever the two brands are not the same.
calculate_similarity_MissingBrandDiffers(text1, text2) ==
    Local(clean_title(text1), LAMBDA clean1 :
    Local(clean_title(text2), LAMBDA clean2 :
    Local(SequenceMatcherRatio(clean1, clean2), LAMBDA r :
    Local(extract_brand(clean1), LAMBDA brand1 :
    Local(extract_brand(clean2), LAMBDA brand2 :
        LET base_score == IF r.t = 0 THEN [num |-> 100, den |-> 100]
                          ELSE [num |-> 100 * r.m, den |-> 100 * r.t]
            adjusted == IF brand1 = brand2
                        THEN IF brand1 # <<>>
                             THEN AddHundredths(base_score, BrandBonus)
                             ELSE base_score
                        ELSE AddHundredths(base_score, 0 - BrandPenalty)
        IN MinOne(adjusted))))))

\* calculate_similarity: the ratio of the two cleaned texts, plus 0.2 when
\* both have the same brand, minus 0.3 when both have a brand and they
\* differ, and min(.., 1.0).
calculate_similarity(text1, text2) ==
    Local(clean_title(text1), LAMBDA clean1 :
    Local(clean_title(text2), LAMBDA clean2 :
    Local(SequenceMatcherRatio(clean1, clean2), LAMBDA r :
    Local(extract_brand(clean1), LAMBDA brand1 :
    Local(extract_brand(clean2), LAMBDA brand2 :
        LET base_score == IF r.t = 0 THEN [num |-> 100, den |-> 100]
                          ELSE [num |-> 100 * r.m, den |-> 100 * r.t]
            adjusted == IF brand1 # <<>> /\ brand2 # <<>>
                        THEN IF brand1 = brand2
                             THEN AddHundredths(base_score, BrandBonus)
                             ELSE AddHundredths(base_score, 0 - BrandPenalty)
                        ELSE base_score
        IN MinOne(adjusted))))))

\* re.search(r'(\d+)\s*\+\s*1', cms_name): the run of digits of the first
\* match, <<>> when there is none.
PlusOneBase(cms_name) ==
    LET hits == {i \in DigitRunStarts(cms_name) :
                   LET p == SkipSpaces(cms_name, SkipDigits(cms_name, i))
                   IN /\ LitAt(cms_name, p, <<"+">>)
                      /\ LitAt(cms_name, SkipSpaces(cms_name, p + 1), <<"1">>)}
    IN IF hits = {} THEN <<>>
       ELSE Slice(cms_name, Min(hits), SkipDigits(cms_name, Min(hits)) - 1)

\* re.search(r'(\d+)\s*pack\s*bundle', lower): the run of digits of the
\* first match, <<>> when there is none.
PackBundle(lower) ==
    LET hits == {i \in DigitRunStarts(lower) :
                   LET p == SkipSpaces(lower, SkipDigits(lower, i))
                   IN /\ LitAt(lower, p, <<"p","a","c","k">>)
                      /\ LitAt(lower, SkipSpaces(lower, p + 4), <<"b","u","n","d","l","e">>)}
    IN IF hits = {} THEN <<>>
       ELSE Slice(lower, Min(hits), SkipDigits(lower, Min(hits)) - 1)

\* The words of ebay_mentions_bulk and of cms_is_bulk.
BulkListingWords == <<
    <<"b","o","x">>, <<"c","a","s","e">>, <<"b","u","l","k">>,
    <<"w","h","o","l","e","s","a","l","e">>
>>

BulkCatalogueWords == <<
    <<"(","1"," ","b","o","x",")">>, <<"(","1"," ","c","a","s","e",")">>,
    <<"x"," ","4","8">>, <<"x"," ","7","2">>, <<"x"," ","1","0","0">>
>>

ContainsAny(s, words) == \E k \in 1..Len(words) : Contains(s, words[k])

\* The fault "the type filter is left out": no row is skipped.
TypeMismatch_Never(ebay_type, cms_type) == FALSE

\* The condition of the hard filter: both types are detected and differ.
TypeMismatch(ebay_type, cms_type) ==
    ebay_type # None /\ cms_type # None /\ ebay_type # cms_type

\* cms_total of the multi-pack block: the catalogue quantity, or N + 1 when
\* the name holds "+1" or "free" and r'(\d+)\s*\+\s*1' finds N.
CmsTotal(cms_name, cms_info) ==
    Local(Lower(cms_name), LAMBDA cms_lower :
    Local(PlusOneBase(cms_name), LAMBDA base :
        IF (Contains(cms_lower, <<"+","1">>) \/ Contains(cms_lower, <<"f","r","e","e">>))
           /\ base # <<>>
        THEN IntOf(base) + 1
        ELSE cms_info.quantity))

\* The multi-pack block: what it adds to bonus_score.
MultipackBonusScore(ebay_info, cms_info, cms_total) ==
    IF ebay_info.is_multipack /\ cms_info.is_multipack
    THEN IF ebay_info.quantity = cms_info.quantity THEN MultipackBonus
         ELSE IF ebay_info.quantity = cms_total THEN MultipackFreeBonus
         ELSE 0
    ELSE 0

\* The fault "a multi-pack flag on one side only costs nothing".
MultipackPenaltyScore_FlagIgnored(ebay_info, cms_info, cms_total) ==
    IF ebay_info.is_multipack /\ cms_info.is_multipack
    THEN IF ebay_info.quantity # cms_info.quantity /\ ebay_info.quantity # cms_total
         THEN MultipackQuantityPenalty ELSE 0
    ELSE 0

\* The multi-pack block: what it adds to penalty_score.
MultipackPenaltyScore(ebay_info, cms_info, cms_total) ==
    IF ebay_info.is_multipack /\ cms_info.is_multipack
    THEN IF ebay_info.quantity # cms_info.quantity /\ ebay_info.quantity # cms_total
         THEN MultipackQuantityPenalty ELSE 0
    ELSE IF ebay_info.is_multipack # cms_info.is_multipack
         THEN MultipackFlagPenalty ELSE 0

\* The fault "the two bulk penalties are two independent ifs, the second
\* one on the listing alone".
BulkPenaltyScore_Independent(ebay_mentions_bulk, cms_is_bulk) ==
    (IF cms_is_bulk /\ ~ebay_mentions_bulk THEN BulkCataloguePenalty ELSE 0)
    + (IF ebay_mentions_bulk THEN BulkListingPenalty ELSE 0)

\* The bulk block ("if cms_is_bulk and not ebay_mentions_bulk ... elif"):
\* what it adds to penalty_score.
BulkPenaltyScore(ebay_mentions_bulk, cms_is_bulk) ==
    IF cms_is_bulk /\ ~ebay_mentions_bulk THEN BulkCataloguePenalty
    ELSE IF ~cms_is_bulk /\ ebay_mentions_bulk THEN BulkListingPenalty
    ELSE 0

\* "bundle" in the listing against "(1 case" in the catalogue name.
BundleCasePenaltyScore(ebay_lower, cms_lower) ==
    IF Contains(ebay_lower, <<"b","u","n","d","l","e">>)
       /\ Contains(cms_lower, <<"(","1"," ","c","a","s","e">>)
    THEN BundleCasePenalty ELSE 0

\* The GREEN variant block.
GreenPenaltyScore(ebay_lower, cms_lower) ==
    IF Contains(cms_lower, <<"g","r","e","e","n">>) /\ ~Contains(ebay_lower, <<"g","r","e","e","n">>)
    THEN GreenCataloguePenalty
    ELSE IF ~Contains(cms_lower, <<"g","r","e","e","n">>) /\ Contains(ebay_lower, <<"g","r","e","e","n">>)
    THEN GreenListingPenalty
    ELSE 0

\* The PUMP variant block (only for Silka lotions).
PumpPenaltyScore(ebay_lower, cms_lower) ==
    IF Contains(cms_lower, <<"s","i","l","k","a">>) /\ Contains(cms_lower, <<"l","o","t","i","o","n">>)
    THEN IF Contains(cms_lower, <<"w","i","t","h"," ","p","u","m","p">>)
            /\ ~Contains(ebay_lower, <<"p","u","m","p">>)
         THEN PumpPenalty
         ELSE IF ~Contains(cms_lower, <<"w","i","t","h"," ","p","u","m","p">>)
                 /\ Contains(ebay_lower, <<"p","u","m","p">>)
         THEN PumpPenalty
         ELSE 0
    ELSE 0

\* The HydroMoist variant block.
HydroMoistPenaltyScore(ebay_lower, cms_lower) ==
    IF /\ Contains(cms_lower, <<"h","y","d","r","o","m","o","i","s","t">>)
       /\ ~(\/ Contains(ebay_lower, <<"h","y","d","r","o","m","o","i","s","t">>)
            \/ Contains(ebay_lower, <<"h","y","d","r","o"," ","m","o","i","s","t">>))
    THEN HydroMoistPenalty ELSE 0

\* The Dream White variant block.
DreamWhitePenaltyScore(ebay_lower, cms_lower) ==
    IF /\ Contains(cms_lower, <<"d","r","e","a","m"," ","w","h","i","t","e">>)
       /\ ~(\/ Contains(ebay_lower, <<"d","r","e","a","m"," ","w","h","i","t","e">>)
            \/ Contains(ebay_lower, <<"d","r","e","a","m","w","h","i","t","e">>))
    THEN DreamWhitePenalty ELSE 0

\* The bundle block: "bundle" in a multi-pack listing against a catalogue
\* name that is no multi-pack.
BundleBonusScore(ebay_lower, ebay_info, cms_info) ==
    IF /\ Contains(ebay_lower, <<"b","u","n","d","l","e">>)
       /\ ebay_info.is_multipack
       /\ ~cms_info.is_multipack
    THEN BundleSingleBonus ELSE 0

\* The adjustments of a row the type filter skipped: none is computed.
NoAdjustments ==
    [multipack_bonus |-> 0, multipack_penalty |-> 0, bulk_penalty |-> 0,
     bundle_case_penalty |-> 0, green_penalty |-> 0, pump_penalty |-> 0,
     hydromoist_penalty |-> 0, dream_white_penalty |-> 0, bundle_bonus |-> 0]

\* The amounts the blocks of the loop body add to bonus_score and to
\* penalty_score for one row, block by block.
Adjustments(ebay_lower, cms_lower, ebay_info, cms_info, cms_total) ==
    [multipack_bonus |-> MultipackBonusScore(ebay_info, cms_info, cms_total),
     multipack_penalty |-> MultipackPenaltyScore(ebay_info, cms_info, cms_total),
     bulk_penalty |-> BulkPenaltyScore(ContainsAny(ebay_lower, BulkListingWords),
                                       ContainsAny(cms_lower, BulkCatalogueWords)),
     bundle_case_penalty |-> BundleCasePenaltyScore(ebay_lower, cms_lower),
     green_penalty |-> GreenPenaltyScore(ebay_lower, cms_lower),
     pump_penalty |-> PumpPenaltyScore(ebay_lower, cms_lower),
     hydromoist_penalty |-> HydroMoistPenaltyScore(ebay_lower, cms_lower),
     dream_white_penalty |-> DreamWhitePenaltyScore(ebay_lower, cms_lower),
     bundle_bonus |-> BundleBonusScore(ebay_lower, ebay_info, cms_info)]

\* One pass of the loop over the catalogue rows (the body of
\* "for _, product in self.products_df.iterrows()"): skipped by the type
\* filter, or the row's bonus, penalty and final score, with the amounts
\* the blocks of the loop body added.
ScoreProduct(ebay_title, ebay_clean, ebay_type, ebay_info, product) ==
    Local(product.cms_product_name, LAMBDA cms_name :
    Local(normalize_product_type(cms_name), LAMBDA cms_type :
    IF TypeMismatch(ebay_type, cms_type)
    THEN [skipped |-> TRUE, similarity |-> [num |-> 0, den |-> 100],
          bonus_score |-> 0, penalty_score |-> 0,
          final_score |-> [num |-> 0, den |-> 100],
          adjustments |-> NoAdjustments]
    ELSE
    Local(Lower(cms_name), LAMBDA cms_lower :
    Local(Lower(ebay_title), LAMBDA ebay_lower :
    Local(extract_size_and_quantity(cms_name), LAMBDA cms_info :
    Local(calculate_similarity(ebay_clean, cms_name), LAMBDA score :
    Local(CmsTotal(cms_name, cms_info), LAMBDA cms_total :
    Local(Adjustments(ebay_lower, cms_lower, ebay_info, cms_info, cms_total), LAMBDA adjustments :
    LET size_bonus ==
            IF ebay_info.size # <<>> /\ cms_info.size # <<>> /\ ebay_info.size = cms_info.size
            THEN SizeBonus ELSE 0
        size_penalty ==
            IF ebay_info.size # <<>> /\ cms_info.size # <<>> /\ ebay_info.size # cms_info.size
            THEN SizePenalty ELSE 0
        bonus_score == size_bonus + adjustments.multipack_bonus + adjustments.bundle_bonus
        penalty_score == size_penalty + adjustments.multipack_penalty
                         + adjustments.bulk_penalty + adjustments.bundle_case_penalty
                         + adjustments.green_penalty + adjustments.pump_penalty
                         + adjustments.hydromoist_penalty + adjustments.dream_white_penalty
        final_score == MaxZero(MinOne(AddHundredths(score, bonus_score - penalty_score)))
    IN [skipped |-> FALSE, similarity |-> score,
        bonus_score |-> bonus_score, penalty_score |-> penalty_score,
        final_score |-> final_score, adjustments |-> adjustments]))))))))

\* The fault "the comparison with the threshold is strict".
AtOrAbove_Strict(final_score, threshold) ==
    final_score.num * 100 > threshold * final_score.den

\* The fault "the threshold is not compared": every scored row is kept.
AtOrAbove_Always(final_score, threshold) == TRUE

\* final_score >= threshold, the threshold in hundredths.
AtOrAbove(final_score, threshold) == final_score.num * 100 >= threshold * final_score.den

\* A match result: the dict of the source.  A key the source leaves out
\* ('special_handling', 'bundle_quantity') holds None, resp. 0.
MatchResult(cms_code, cms_name, confidence, wholesale_price, special_handling, bundle_quantity) ==
    [cms_code |-> cms_code, cms_name |-> cms_name, confidence |-> confidence,
     wholesale_price |-> wholesale_price, special_handling |-> special_handling,
     bundle_quantity |-> bundle_quantity]

\* The match_result built for a row that scored at or above the threshold.
ScorerResult(ebay_title, product, final_score) ==
    Local(Lower(ebay_title), LAMBDA ebay_lower :
    Local(PackBundle(ebay_lower), LAMBDA bundle :
        LET cms_code == IF product.cms_product_code # NaN
                        THEN product.cms_product_code ELSE "NO_CODE"
        IN IF Contains(ebay_lower, <<"b","u","n","d","l","e">>) /\ bundle # <<>>
           THEN MatchResult(cms_code, product.cms_product_name, final_score,
                            Pence(product.wholesale_price), "bundle_multiply", IntOf(bundle))
           ELSE MatchResult(cms_code, product.cms_product_name, final_score,
                            Pence(product.wholesale_price), None, 0)))

\* The fault "the sort is not stable": a descending sort that puts a match
\* ahead of the earlier matches of equal confidence.
RECURSIVE SortByConfidence_Unstable(_)
SortByConfidence_Unstable(matches) ==
    IF matches = <<>> THEN <<>>
    ELSE LET n == Len(matches)
             x == matches[n]
             sorted == SortByConfidence_Unstable(SubSeq(matches, 1, n - 1))
             ahead == {k \in 1..Len(sorted) :
                         /\ ScoreGeq(sorted[k].confidence, x.confidence)
                         /\ ~ScoreEq(sorted[k].confidence, x.confidence)}
             pos == IF ahead = {} THEN 0 ELSE Max(ahead)
         IN SubSeq(sorted, 1, pos) \o <<x>> \o SubSeq(sorted, pos + 1, Len(sorted))

\* matches.sort(key=lambda x: x['confidence'], reverse=True): a stable sort,
\* equal confidences keep their order.
RECURSIVE SortByConfidence(_)
SortByConfidence(matches) ==
    IF matches = <<>> THEN <<>>
    ELSE LET n == Len(matches)
             x == matches[n]
             sorted == SortByConfidence(SubSeq(matches, 1, n - 1))
             ahead == {k \in 1..Len(sorted) : ScoreGeq(sorted[k].confidence, x.confidence)}
             pos == IF ahead = {} THEN 0 ELSE Max(ahead)
         IN SubSeq(sorted, 1, pos) \o <<x>> \o SubSeq(sorted, pos + 1, Len(sorted))

\* matches[:5]
TopFive(matches) == SubSeq(matches, 1, IF Len(matches) < TopMatches THEN Len(matches) ELSE TopMatches)

\* The rows of products whose name is name, in catalogue order.
RowsNamed(products, name) ==
    SelectSeq(products, LAMBDA product : product.cms_product_name = name)

\* "Kojie San Soap {bracket_variant} - Skin Brightening & Lightening"
KojieSanTitle(bracket_variant) ==
    <<"K","o","j","i","e"," ","S","a","n"," ","S","o","a","p"," ">>
    \o bracket_variant
    \o <<" ","-"," ","S","k","i","n"," ","B","r","i","g","h","t","e","n","i","n","g"," ","&"," ","L","i","g","h","t","e","n","i","n","g">>

\* The title after clean_silka_title and the bracket stage: the value of
\* ebay_title when is_assorted_cosmetics is called.
RewrittenTitle(title) ==
    Local(clean_silka_title(title), LAMBDA silka :
    Local(parse_bracket_selection(silka), LAMBDA bracket :
        IF /\ bracket.found
           /\ Contains(Lower(bracket.cleaned_title), <<"k","o","j","i","e"," ","s","a","n">>)
        THEN KojieSanTitle(bracket.variant)
        ELSE silka))

\* The bracket stage returns the manual entry of "kojie san soap 45g".
BracketManualEntry(title) ==
    \E silka \in {clean_silka_title(title)} :
        \E bracket \in {parse_bracket_selection(silka)} :
            /\ bracket.found
            /\ Contains(Lower(bracket.cleaned_title), <<"k","o","j","i","e"," ","s","a","n">>)
            /\ bracket.variant = <<"4","5","g">>
            /\ get_manual_cost(<<"k","o","j","i","e"," ","s","a","n"," ","s","o","a","p"," ","4","5","g">>).found

\* The matches of the product-set stage: for each set item, every row of
\* that name.
RECURSIVE ProductSetMatches(_, _)
ProductSetMatches(products, set_products) ==
    IF set_products = <<>> THEN <<>>
    ELSE Local(RowsNamed(products, Head(set_products).name), LAMBDA rows :
             Tuple([k \in 1..Len(rows) |->
                 MatchResult(rows[k].cms_product_code, rows[k].cms_product_name, One,
                             Pence(rows[k].wholesale_price), "product_set", 0)]))
         \o ProductSetMatches(products, Tail(set_products))

\* The match of a manual-table entry.
ManualMatch(manual_info) ==
    MatchResult("MANUAL_ENTRY", manual_info.cms_name, One, manual_info.cost,
                "manual_cost_override", 0)

\* The loop of the scorer over the rows: the per-row scores, in row order.
ScoreAll(products, ebay_title) ==
    Local(normalize_product_type(ebay_title), LAMBDA ebay_type :
    Local(extract_size_and_quantity(ebay_title), LAMBDA ebay_info :
    Local(clean_title(ebay_title), LAMBDA ebay_clean :
        Tuple([k \in 1..Len(products) |->
            ScoreProduct(ebay_title, ebay_clean, ebay_type, ebay_info, products[k])]))))

\* The matches list before the sort: the rows not skipped whose final score
\* is at or above the threshold, in row order.
RECURSIVE Kept(_, _, _, _, _)
Kept(products, scores, ebay_title, threshold, k) ==
    IF k > Len(products) THEN <<>>
    ELSE (IF ~scores[k].skipped /\ AtOrAbove(scores[k].final_score, threshold)
          THEN << ScorerResult(ebay_title, products[k], scores[k].final_score) >>
          ELSE <<>>)
         \o Kept(products, scores, ebay_title, threshold, k + 1)

\* The match of the cosmetics stage.
CosmeticsMatch(ebay_title) ==
    MatchResult("ASSORTED_COSMETICS",
                <<"A","s","s","o","r","t","e","d"," ","C","o","s","m","e","t","i","c","s">>,
                One, get_flawlessly_u_unit_cost(ebay_title),
                "flawlessly_u_aggregation", 0)

\* The fault "every row of the canonical name is returned".
SpecialRuleMatches_EveryRow(products, ebay_title) ==
    Local(apply_special_matching_rule(ebay_title), LAMBDA special_match :
    Local(IF special_match = 0 THEN <<>>
          ELSE RowsNamed(products, SPECIAL_MATCHING_RULES[special_match].cms_name),
          LAMBDA rows :
        Tuple([k \in 1..Len(rows) |->
                  MatchResult(rows[k].cms_product_code, rows[k].cms_product_name, One,
                              Pence(rows[k].wholesale_price), None, 0)])))

\* The matches of the special rule stage: the first row whose name is the
\* canonical name of the first rule the title matches; none when no rule
\* matches or no row has that name.
SpecialRuleMatches(products, ebay_title) ==
    Local(apply_special_matching_rule(ebay_title), LAMBDA special_match :
    Local(IF special_match = 0 THEN <<>>
          ELSE RowsNamed(products, SPECIAL_MATCHING_RULES[special_match].cms_name),
          LAMBDA rows :
        IF rows = <<>> THEN <<>>
        ELSE << MatchResult(rows[1].cms_product_code, rows[1].cms_product_name, One,
                            Pence(rows[1].wholesale_price), None, 0) >>))

\* What a call of match_ebay_title_enhanced yields: the list returned, the
\* stage that returned it, the title as the later stages saw it and the
\* scorer's per-row scores (empty when an override stage returned).
Outcome(stage, matches, ebay_title, scores) ==
    [stage |-> stage, matches |-> matches, ebay_title |-> ebay_title, scores |-> scores]

\* The manual entry the bracket stage returns.
KojieSan45g == <<"k","o","j","i","e"," ","s","a","n"," ","s","o","a","p"," ","4","5","g">>

\* The fault "a rule whose canonical name is not in the catalogue ends the
\* call": the special rule stage returns its empty list.
ScoreOrOverride_NoHandOver(products, ebay_title, threshold) ==
    Local(SpecialRuleMatches(products, ebay_title), LAMBDA special_matches :
    IF special_matches # <<>> \/ apply_special_matching_rule(ebay_title) # 0
    THEN Outcome("special_rule", special_matches, ebay_title, <<>>)
    ELSE Local(get_manual_cost(ebay_title), LAMBDA manual_info :
         IF manual_info.found
         THEN Outcome("manual_cost", << ManualMatch(manual_info) >>, ebay_title, <<>>)
         ELSE Local(ScoreAll(products, ebay_title), LAMBDA scores :
              Outcome("scorer",
                      TopFive(SortByConfidence(Kept(products, scores, ebay_title, threshold, 1))),
                      ebay_title, scores))))

\* The stages after the cosmetics check, on the title as rewritten: the
\* special rule table, the manual table, then the scorer (the loop over
\* the rows, the sort and the cut at five).
ScoreOrOverride(products, ebay_title, threshold) ==
    Local(SpecialRuleMatches(products, ebay_title), LAMBDA special_matches :
    IF special_matches # <<>>
    THEN Outcome("special_rule", special_matches, ebay_title, <<>>)
    ELSE Local(get_manual_cost(ebay_title), LAMBDA manual_info :
         IF manual_info.found
         THEN Outcome("manual_cost", << ManualMatch(manual_info) >>, ebay_title, <<>>)
         ELSE Local(ScoreAll(products, ebay_title), LAMBDA scores :
              Outcome("scorer",
                      TopFive(SortByConfidence(Kept(products, scores, ebay_title, threshold, 1))),
                      ebay_title, scores))))

\* The fault "the cosmetics check comes before the bracket stage".
match_ebay_title_enhanced_CosmeticsFirst(products, title, threshold) ==
    Local(handle_product_sets(title), LAMBDA set_products :
    Local(ProductSetMatches(products, set_products.products), LAMBDA set_matches :
    Local(clean_silka_title(title), LAMBDA silka_title :
    IF set_products.is_set /\ set_products.products # <<>> /\ set_matches # <<>>
    THEN Outcome("product_set", set_matches, title, <<>>)
    ELSE IF is_assorted_cosmetics(silka_title)
    THEN Outcome("cosmetics", << CosmeticsMatch(silka_title) >>, silka_title, <<>>)
    ELSE IF BracketManualEntry(title)
    THEN Outcome("bracket", << ManualMatch(get_manual_cost(KojieSan45g)) >>,
                 silka_title, <<>>)
    ELSE Local(RewrittenTitle(title), LAMBDA ebay_title :
         ScoreOrOverride(products, ebay_title, threshold)))))

\* match_ebay_title_enhanced on the catalogue rows products.
match_ebay_title_enhanced(products, title, threshold) ==
    Local(handle_product_sets(title), LAMBDA set_products :
    Local(ProductSetMatches(products, set_products.products), LAMBDA set_matches :
    IF set_products.is_set /\ set_products.products # <<>> /\ set_matches # <<>>
    THEN Outcome("product_set", set_matches, title, <<>>)
    ELSE IF BracketManualEntry(title)
    THEN Outcome("bracket", << ManualMatch(get_manual_cost(KojieSan45g)) >>,
                 clean_silka_title(title), <<>>)
    ELSE Local(RewrittenTitle(title), LAMBDA ebay_title :
         IF is_assorted_cosmetics(ebay_title)
         THEN Outcome("cosmetics", << CosmeticsMatch(ebay_title) >>, ebay_title, <<>>)
         ELSE ScoreOrOverride(products, ebay_title, threshold))))

\* An empty cell of a CSV file.
EmptyCell == ""

\* pd.read_csv: the rows of a stored file as rows of a DataFrame; an empty
\* cell of the code column is read as NaN.
read_csv(stored) ==
    Tuple([k \in 1..Len(stored) |->
              IF stored[k].cms_product_code = EmptyCell
              THEN [stored[k] EXCEPT !.cms_product_code = NaN]
              ELSE stored[k]])

\* DataFrame.to_csv(index=False): the rows of a DataFrame as rows of a
\* stored file; NaN is written as an empty cell.
to_csv(products) ==
    Tuple([k \in 1..Len(products) |->
              IF products[k].cms_product_code = NaN
              THEN [products[k] EXCEPT !.cms_product_code = EmptyCell]
              ELSE products[k]])

\* load_catalogue: the rows of the file, or no rows when the file does not
\* exist.
load_catalogue(file) == IF file.exists THEN read_csv(file.rows) ELSE <<>>
----------------------------------------------------------------------------
(* The inputs of the model: catalogue files, listing titles, thresholds. *)

\* The rows of the largest catalogue file, with the columns of
\* load_catalogue; prices in pence.  A catalogue file holds the first n.
CatalogueRows == <<
    \* 1: EXS-A "Extract Skin Lightening & Brightening Herbal Soap Papaya Calamansi 125g"
    [cms_product_code |-> "EXS-A",
     cms_product_name |-> <<"E","x","t","r","a","c","t"," ","S","k","i","n"," ","L","i","g","h","t","e","n","i","n","g"," ","&"," ","B","r","i","g","h","t","e","n","i","n","g"," ","H","e","r","b","a","l"," ","S","o","a","p"," ","P","a","p","a","y","a"," ","C","a","l","a","m","a","n","s","i"," ","1","2","5","g">>,
     retail_price_inc_vat |-> 120, retail_price_exc_vat |-> 100,
     wholesale_price |-> 95, effective_date |-> "2025-01-01"],
    \* 2: EXL-A "Extract Lightening & Brightening Papaya Calamansi Lotion 200ml"
    [cms_product_code |-> "EXL-A",
     cms_product_name |-> <<"E","x","t","r","a","c","t"," ","L","i","g","h","t","e","n","i","n","g"," ","&"," ","B","r","i","g","h","t","e","n","i","n","g"," ","P","a","p","a","y","a"," ","C","a","l","a","m","a","n","s","i"," ","L","o","t","i","o","n"," ","2","0","0","m","l">>,
     retail_price_inc_vat |-> 399, retail_price_exc_vat |-> 332,
     wholesale_price |-> 310, effective_date |-> "2025-01-01"],
    \* 3: KS-3 "Kojie San Skin Lightening & Brightening Soap 100g x 3"
    [cms_product_code |-> "KS-3",
     cms_product_name |-> <<"K","o","j","i","e"," ","S","a","n"," ","S","k","i","n"," ","L","i","g","h","t","e","n","i","n","g"," ","&"," ","B","r","i","g","h","t","e","n","i","n","g"," ","S","o","a","p"," ","1","0","0","g"," ","x"," ","3">>,
     retail_price_inc_vat |-> 599, retail_price_exc_vat |-> 499,
     wholesale_price |-> 450, effective_date |-> "2025-01-01"],
    \* 4: KS-1 "Kojie San Skin Lightening & Brightening Soap 100g"
    [cms_product_code |-> "KS-1",
     cms_product_name |-> <<"K","o","j","i","e"," ","S","a","n"," ","S","k","i","n"," ","L","i","g","h","t","e","n","i","n","g"," ","&"," ","B","r","i","g","h","t","e","n","i","n","g"," ","S","o","a","p"," ","1","0","0","g">>,
     retail_price_inc_vat |-> 220, retail_price_exc_vat |-> 183,
     wholesale_price |-> 160, effective_date |-> "2025-01-01"],
    \* 5: EXS-B "Extract Skin Lightening & Brightening Herbal Soap Papaya Calamansi 125g"
    [cms_product_code |-> "EXS-B",
     cms_product_name |-> <<"E","x","t","r","a","c","t"," ","S","k","i","n"," ","L","i","g","h","t","e","n","i","n","g"," ","&"," ","B","r","i","g","h","t","e","n","i","n","g"," ","H","e","r","b","a","l"," ","S","o","a","p"," ","P","a","p","a","y","a"," ","C","a","l","a","m","a","n","s","i"," ","1","2","5","g">>,
     retail_price_inc_vat |-> 120, retail_price_exc_vat |-> 100,
     wholesale_price |-> 97, effective_date |-> "2025-01-01"],
    \* 6: EXL-B "Extract Lightening & Brightening Papaya Calamansi Lotion 200ml"
    [cms_product_code |-> "EXL-B",
     cms_product_name |-> <<"E","x","t","r","a","c","t"," ","L","i","g","h","t","e","n","i","n","g"," ","&"," ","B","r","i","g","h","t","e","n","i","n","g"," ","P","a","p","a","y","a"," ","C","a","l","a","m","a","n","s","i"," ","L","o","t","i","o","n"," ","2","0","0","m","l">>,
     retail_price_inc_vat |-> 399, retail_price_exc_vat |-> 332,
     wholesale_price |-> 305, effective_date |-> "2025-01-01"],
    \* 7: EXS-C "Extract Skin Lightening & Brightening Herbal Soap Papaya Calamansi 125g"
    [cms_product_code |-> "EXS-C",
     cms_product_name |-> <<"E","x","t","r","a","c","t"," ","S","k","i","n"," ","L","i","g","h","t","e","n","i","n","g"," ","&"," ","B","r","i","g","h","t","e","n","i","n","g"," ","H","e","r","b","a","l"," ","S","o","a","p"," ","P","a","p","a","y","a"," ","C","a","l","a","m","a","n","s","i"," ","1","2","5","g">>,
     retail_price_inc_vat |-> 120, retail_price_exc_vat |-> 100,
     wholesale_price |-> 99, effective_date |-> "2025-01-01"],
    \* 8: EXL-C "Extract Lightening & Brightening Papaya Calamansi Lotion 200ml"
    [cms_product_code |-> "EXL-C",
     cms_product_name |-> <<"E","x","t","r","a","c","t"," ","L","i","g","h","t","e","n","i","n","g"," ","&"," ","B","r","i","g","h","t","e","n","i","n","g"," ","P","a","p","a","y","a"," ","C","a","l","a","m","a","n","s","i"," ","L","o","t","i","o","n"," ","2","0","0","m","l">>,
     retail_price_inc_vat |-> 399, retail_price_exc_vat |-> 332,
     wholesale_price |-> 300, effective_date |-> "2025-01-01"],
    \* 9: BELO-3 "Belo Kojic Acid & Tranexamic Acid Intensive Lightening & Brightening Bar 65g x 2 + 1 FREE"
    [cms_product_code |-> "BELO-3",
     cms_product_name |-> <<"B","e","l","o"," ","K","o","j","i","c"," ","A","c","i","d"," ","&"," ","T","r","a","n","e","x","a","m","i","c"," ","A","c","i","d"," ","I","n","t","e","n","s","i","v","e"," ","L","i","g","h","t","e","n","i","n","g"," ","&"," ","B","r","i","g","h","t","e","n","i","n","g"," ","B","a","r"," ","6","5","g"," ","x"," ","2"," ","+"," ","1"," ","F","R","E","E">>,
     retail_price_inc_vat |-> 699, retail_price_exc_vat |-> 582,
     wholesale_price |-> 520, effective_date |-> "2025-01-01"]
>>

\* The listing titles given to match_ebay_title_enhanced.
EbayTitles == {
    \* "Kojie San Soap 100g x 3 (Large Trio Pack) - Skin Brightening & Lightening"
    <<"K","o","j","i","e"," ","S","a","n"," ","S","o","a","p"," ","1","0","0","g"," ","x"," ","3"," ","(","L","a","r","g","e"," ","T","r","i","o"," ","P","a","c","k",")"," ","-"," ","S","k","i","n"," ","B","r","i","g","h","t","e","n","i","n","g"," ","&"," ","L","i","g","h","t","e","n","i","n","g">>,
    \* "Extract Soap 125g & Lotion 200ml Set"
    <<"E","x","t","r","a","c","t"," ","S","o","a","p"," ","1","2","5","g"," ","&"," ","L","o","t","i","o","n"," ","2","0","0","m","l"," ","S","e","t">>,
    \* "Flawlessly U Papaya Calamansi Extract Whitening Soap 125g"
    <<"F","l","a","w","l","e","s","s","l","y"," ","U"," ","P","a","p","a","y","a"," ","C","a","l","a","m","a","n","s","i"," ","E","x","t","r","a","c","t"," ","W","h","i","t","e","n","i","n","g"," ","S","o","a","p"," ","1","2","5","g">>,
    \* "Kojie San Flawlessly U Soap [45g]"
    <<"K","o","j","i","e"," ","S","a","n"," ","F","l","a","w","l","e","s","s","l","y"," ","U"," ","S","o","a","p"," ","[","4","5","g","]">>,
    \* "Kojie San Body Wash 300ml"
    <<"K","o","j","i","e"," ","S","a","n"," ","B","o","d","y"," ","W","a","s","h"," ","3","0","0","m","l">>,
    \* "Kojie San Lightening Soap 3 Bars 100g"
    <<"K","o","j","i","e"," ","S","a","n"," ","L","i","g","h","t","e","n","i","n","g"," ","S","o","a","p"," ","3"," ","B","a","r","s"," ","1","0","0","g">>,
    \* "Kojie San Lightening Soap 3 Bars 100g [Large]"
    <<"K","o","j","i","e"," ","S","a","n"," ","L","i","g","h","t","e","n","i","n","g"," ","S","o","a","p"," ","3"," ","B","a","r","s"," ","1","0","0","g"," ","[","L","a","r","g","e","]">>,
    \* "Dr. S. Wong's Sulfur Soap 80g"
    <<"D","r","."," ","S","."," ","W","o","n","g","'","s"," ","S","u","l","f","u","r"," ","S","o","a","p"," ","8","0","g">>,
    \* "Vintage Camera Lens"
    <<"V","i","n","t","a","g","e"," ","C","a","m","e","r","a"," ","L","e","n","s">>,
    \* "Extract Papaya Calamansi Soap 125g - PHILIPPINES"
    <<"E","x","t","r","a","c","t"," ","P","a","p","a","y","a"," ","C","a","l","a","m","a","n","s","i"," ","S","o","a","p"," ","1","2","5","g"," ","-"," ","P","H","I","L","I","P","P","I","N","E","S">>,
    \* "Kojie San Body Wash 300ml Lightening Soap 3 Bars 100g"
    <<"K","o","j","i","e"," ","S","a","n"," ","B","o","d","y"," ","W","a","s","h"," ","3","0","0","m","l"," ","L","i","g","h","t","e","n","i","n","g"," ","S","o","a","p"," ","3"," ","B","a","r","s"," ","1","0","0","g">>,
    \* "Extract Lightening & Brightening Papaya Calamansi Lotion 200ml"
    <<"E","x","t","r","a","c","t"," ","L","i","g","h","t","e","n","i","n","g"," ","&"," ","B","r","i","g","h","t","e","n","i","n","g"," ","P","a","p","a","y","a"," ","C","a","l","a","m","a","n","s","i"," ","L","o","t","i","o","n"," ","2","0","0","m","l">>,
    \* "Extract Papaya Calamansi Soap 125g [Green]"
    <<"E","x","t","r","a","c","t"," ","P","a","p","a","y","a"," ","C","a","l","a","m","a","n","s","i"," ","S","o","a","p"," ","1","2","5","g"," ","[","G","r","e","e","n","]">>,
    \* "Kojie San Lotion 250ml [Cream]"
    <<"K","o","j","i","e"," ","S","a","n"," ","L","o","t","i","o","n"," ","2","5","0","m","l"," ","[","C","r","e","a","m","]">>,
    \* "Papaya Calamansi Extract Whitening Soap 125g"
    <<"P","a","p","a","y","a"," ","C","a","l","a","m","a","n","s","i"," ","E","x","t","r","a","c","t"," ","W","h","i","t","e","n","i","n","g"," ","S","o","a","p"," ","1","2","5","g">>,
    \* "Silka Kojie San Flawlessly U [45g]orange "
    <<"S","i","l","k","a"," ","K","o","j","i","e"," ","S","a","n"," ","F","l","a","w","l","e","s","s","l","y"," ","U"," ","[","4","5","g","]","o","r","a","n","g","e"," ">>,
    \* "Kojie San x 5"
    <<"K","o","j","i","e"," ","S","a","n"," ","x"," ","5">>
}

\* A catalogue row whose name is closer to the first test title than the
\* name of row 3 is.
KojicAcidTrioRow ==
    [cms_product_code |-> "KS-K",
     cms_product_name |-> <<"K","o","j","i","e"," ","S","a","n"," ","K","o","j","i","c"," ","A","c","i","d"," ","S","o","a","p"," ","1","0","0","g"," ","x"," ","3">>,
     retail_price_inc_vat |-> 649, retail_price_exc_vat |-> 541,
     wholesale_price |-> 480, effective_date |-> "2025-01-01"]

\* The first of the test_titles of the module's example run.
TestTitleKojieSanTrio ==
    <<"K","o","j","i","e"," ","S","a","n"," ","S","o","a","p"," ","1","0","0","g"," ","x"," ","3"," ","(","L","a","r","g","e"," ","T","r","i","o"," ","P","a","c","k",")"," ","-"," ","S","k","i","n"," ","B","r","i","g","h","t","e","n","i","n","g"," ","&"," ","L","i","g","h","t","e","n","i","n","g">>

\* A listing of three bars, which a special matching rule names.
TitleKojieSanBars ==
    <<"K","o","j","i","e"," ","S","a","n"," ","L","i","g","h","t","e","n","i","n","g"," ","S","o","a","p"," ","3"," ","B","a","r","s"," ","1","0","0","g">>

\* The titles given to clean_title: a base and up to MaxSuffixes marketplace
\* suffixes.
TitleBases == {
    <<"S","o","a","p">>,   \* "Soap"
    <<"K","o","j","i","e"," ","S","a","n"," ","S","o","a","p"," ","1","3","5","g"," ">>   \* "Kojie San Soap 135g "
}

TitleSuffixes == {
    <<" ","-"," ","P","H","I","L","I","P","P","I","N","E","S">>,   \* " - PHILIPPINES"
    <<" ","-"," ","P","H">>,   \* " - PH"
    <<"-","U","S","A">>,   \* "-USA"
    <<" ","-"," ","u","k"," ">>,   \* " - uk "
    <<" ","-"," ","A","u","t","h","e","n","t","i","c">>   \* " - Authentic"
}

\* The largest number of rows of a catalogue file.
MaxRows == 8

\* The largest number of marketplace suffixes of a title given to clean_title.
MaxSuffixes == 2

\* The thresholds, in hundredths: 0.0, the default 0.7, and 1.0.
Thresholds == {0, 70, 100}

CatalogueFiles ==
    {[exists |-> FALSE, rows |-> <<>>]}
    \cup {[exists |-> TRUE,
           rows |-> SubSeq(CatalogueRows, 1, IF n < Len(CatalogueRows) THEN n ELSE Len(CatalogueRows))] :
          n \in 0..MaxRows}

RECURSIVE WithSuffixes(_)
WithSuffixes(n) ==
    IF n = 0 THEN TitleBases
    ELSE LET shorter == WithSuffixes(n - 1)
         IN shorter \cup {t \o s : t \in shorter, s \in TitleSuffixes}

CleanTitleInputs == WithSuffixes(MaxSuffixes)

NoCall == [op |-> "none"]
NoTrace == [stage |-> "none"]

----------------------------------------------------------------------------
(* The state machine: a manager is constructed over a catalogue file; its  *)
(* methods are called one at a time (the program is single-threaded).      *)

\* __init__: load_catalogue(), an empty price history.
Init ==
    /\ catalogue_file \in CatalogueFiles
    /\ products_df = load_catalogue(catalogue_file)
    /\ price_history = <<>>
    /\ pc = "idle"
    /\ call = NoCall
    /\ result = <<>>
    /\ trace = NoTrace

\* The fault "matching consumes the catalogue": a call drops the first row
\* of products_df.
Match_Consuming(ebay_title, threshold) ==
    /\ pc = "idle"
    /\ \E outcome \in {match_ebay_title_enhanced(products_df, ebay_title, threshold)} :
          /\ result' = outcome.matches
          /\ trace' = [stage |-> outcome.stage, ebay_title |-> outcome.ebay_title,
                       scores |-> outcome.scores]
    /\ call' = [op |-> "match_ebay_title_enhanced", ebay_title |-> ebay_title,
                threshold |-> threshold]
    /\ pc' = "returned"
    /\ products_df' = SubSeq(products_df, 2, Len(products_df))
    /\ UNCHANGED <<catalogue_file, price_history>>

\* A call of match_ebay_title_enhanced(ebay_title, threshold).
Match(ebay_title, threshold) ==
    /\ pc = "idle"
    /\ \E outcome \in {match_ebay_title_enhanced(products_df, ebay_title, threshold)} :
          /\ result' = outcome.matches
          /\ trace' = [stage |-> outcome.stage, ebay_title |-> outcome.ebay_title,
                       scores |-> outcome.scores]
    /\ call' = [op |-> "match_ebay_title_enhanced", ebay_title |-> ebay_title,
                threshold |-> threshold]
    /\ pc' = "returned"
    /\ UNCHANGED <<catalogue_file, products_df, price_history>>

\* A call of clean_title(title).
CleanTitle(title) ==
    /\ pc = "idle"
    /\ result' = clean_title(title)
    /\ trace' = [stage |-> "clean_title"]
    /\ call' = [op |-> "clean_title", title |-> title]
    /\ pc' = "returned"
    /\ UNCHANGED <<catalogue_file, products_df, price_history>>

\* The caller takes the result; the manager is ready for the next call.
Return ==
    /\ pc = "returned"
    /\ pc' = "idle"
    /\ call' = NoCall
    /\ result' = <<>>
    /\ trace' = NoTrace
    /\ UNCHANGED <<catalogue_file, products_df, price_history>>

Next ==
    \/ \E t \in EbayTitles, th \in Thresholds : Match(t, th)
    \/ \E t \in CleanTitleInputs : CleanTitle(t)
    \/ Return

Spec == Init /\ [][Next]_vars

----------------------------------------------------------------------------
(* Price updates: update_price and the price history, on a manager whose   *)
(* catalogue is reloaded, matched against and updated in any order.        *)

\* The largest number of entries of the price history.
MaxHistory == 2

\* The rows of the stored catalogue file of the price updates: two coded
\* products and one whose code cell is empty.
StoredRows == <<
    CatalogueRows[3],
    CatalogueRows[4],
    [CatalogueRows[9] EXCEPT !.cms_product_code = EmptyCell]
>>

\* The rows of a second catalogue file, with two products of three bars.
RivalRows == << KojicAcidTrioRow, CatalogueRows[3] >>

StoredFiles ==
    {[exists |-> FALSE, rows |-> <<>>],
     [exists |-> TRUE, rows |-> StoredRows],
     [exists |-> TRUE, rows |-> RivalRows]}

\* The arguments of update_price: a code of the catalogue and one that is
\* not; prices in pence, one of them negative; a date, or None for today.
UpdateCodes == {"KS-3", "ZZ-404"}
UpdatePrices == {-50, 175}
UpdateDates == {None, "2025-07-15"}

\* datetime.now().strftime('%Y-%m-%d'): whatever day the call is made on.
Today == {"2025-07-15", "2025-07-16"}

\* The listings matched between the price updates; the third is worded as
\* the single bar of the catalogue is.
StoreTitles == {TestTitleKojieSanTrio, TitleKojieSanBars, CatalogueRows[4].cms_product_name}

\* mask = self.products_df['cms_product_code'] == cms_code
Mask(products, cms_code) ==
    {k \in 1..Len(products) : products[k].cms_product_code = cms_code}

\* The log line of update_price: logger.info or logger.error.
Updated == "info: Updated price"
NotFound == "error: Product code not found"

\* update_price without self.products_df.to_csv(self.catalogue_file).
update_price_Unsaved(products, history, file, cms_code, new_price, effective_date, today) ==
    LET date == IF effective_date = None THEN today ELSE effective_date
        mask == Mask(products, cms_code)
    IN  [products_df |-> Tuple([k \in 1..Len(products) |->
                                IF k \in mask
                                THEN [products[k] EXCEPT !.wholesale_price = new_price,
                                                         !.effective_date = date]
                                ELSE products[k]]),
         price_history |-> IF mask = {} THEN history
                           ELSE Append(history,
                                   [cms_code |-> cms_code,
                                    old_price |-> products[Min(mask)].wholesale_price,
                                    new_price |-> new_price, changed_date |-> date]),
         catalogue_file |-> file,
         returned |-> None,
         logged |-> IF mask = {} THEN NotFound ELSE Updated]

\* update_price that logs a change of price only: nothing is appended when
\* the new price is the old one.
update_price_ChangesOnly(products, history, file, cms_code, new_price, effective_date, today) ==
    LET date == IF effective_date = None THEN today ELSE effective_date
        mask == Mask(products, cms_code)
        updated == Tuple([k \in 1..Len(products) |->
                            IF k \in mask
                            THEN [products[k] EXCEPT !.wholesale_price = new_price,
                                                     !.effective_date = date]
                            ELSE products[k]])
    IN  [products_df |-> updated,
         price_history |-> IF mask = {} \/ products[Min(mask \cup {Len(products)})].wholesale_price = new_price
                           THEN history
                           ELSE Append(history,
                                   [cms_code |-> cms_code,
                                    old_price |-> products[Min(mask)].wholesale_price,
                                    new_price |-> new_price, changed_date |-> date]),
         catalogue_file |-> IF mask = {} THEN file ELSE [exists |-> TRUE, rows |-> to_csv(updated)],
         returned |-> None,
         logged |-> IF mask = {} THEN NotFound ELSE Updated]

\* update_price(cms_code, new_price, effective_date), called on the day
\* today: the fields of the manager and the stored file after the call, the
\* value returned and the line logged.
update_price(products, history, file, cms_code, new_price, effective_date, today) ==
    LET date == IF effective_date = None THEN today ELSE effective_date
        mask == Mask(products, cms_code)
    IN  IF mask # {}
        THEN LET old_price == products[Min(mask)].wholesale_price
                 updated == Tuple([k \in 1..Len(products) |->
                                IF k \in mask
                                THEN [products[k] EXCEPT !.wholesale_price = new_price,
                                                         !.effective_date = date]
                                ELSE products[k]])
             IN  [products_df |-> updated,
                  price_history |-> Append(history,
                                       [cms_code |-> cms_code, old_price |-> old_price,
                                        new_price |-> new_price, changed_date |-> date]),
                  catalogue_file |-> [exists |-> TRUE, rows |-> to_csv(updated)],
                  returned |-> None,
                  logged |-> Updated]
        ELSE [products_df |-> products,
              price_history |-> history,
              catalogue_file |-> file,
              returned |-> None,
              logged |-> NotFound]

\* The dates asked of get_price_at_date: one before every change of price
\* and one of the days of the changes.
TargetDates == {"2025-07-01", "2025-07-15"}

\* get_price_at_date(cms_code, target_date): an error value for an empty
\* catalogue or a code that is not in it, else the fields of the first row
\* of that code as they are now.
get_price_at_date(products, cms_code, target_date) ==
    IF products = <<>> THEN [error |-> "Product catalogue is not loaded"]
    ELSE IF Mask(products, cms_code) = {} THEN [error |-> "Product code not found"]
    ELSE LET product == products[Min(Mask(products, cms_code))]
         IN  [cms_code |-> cms_code,
              wholesale_price |-> product.wholesale_price,
              retail_price_exc_vat |-> product.retail_price_exc_vat,
              retail_price_inc_vat |-> product.retail_price_inc_vat,
              effective_date |-> product.effective_date]

\* __init__ of the manager of the price updates.
StoreInit ==
    /\ catalogue_file \in StoredFiles
    /\ products_df = load_catalogue(catalogue_file)
    /\ price_history = <<>>
    /\ pc = "idle"
    /\ call = NoCall
    /\ result = <<>>
    /\ trace = NoTrace

\* A call of update_price(cms_code, new_price, effective_date).
UpdatePrice(cms_code, new_price, effective_date) ==
    /\ pc = "idle"
    /\ Len(price_history) < MaxHistory
    /\ \E today \in Today :
       \E after \in {update_price(products_df, price_history, catalogue_file,
                                  cms_code, new_price, effective_date, today)} :
          /\ products_df' = after.products_df
          /\ price_history' = after.price_history
          /\ catalogue_file' = after.catalogue_file
          /\ result' = after.returned
          /\ trace' = [stage |-> "update_price", logged |-> after.logged]
    /\ call' = [op |-> "update_price", cms_code |-> cms_code, new_price |-> new_price,
                effective_date |-> effective_date]
    /\ pc' = "returned"

\* A call of load_catalogue(): the catalogue is read again from its file.
LoadCatalogue ==
    /\ pc = "idle"
    /\ products_df' = load_catalogue(catalogue_file)
    /\ result' = None
    /\ trace' = [stage |-> "load_catalogue"]
    /\ call' = [op |-> "load_catalogue"]
    /\ pc' = "returned"
    /\ UNCHANGED <<catalogue_file, price_history>>

\* A call of get_price_at_date(cms_code, target_date).
GetPriceAtDate(cms_code, target_date) ==
    /\ pc = "idle"
    /\ result' = get_price_at_date(products_df, cms_code, target_date)
    /\ trace' = [stage |-> "get_price_at_date"]
    /\ call' = [op |-> "get_price_at_date", cms_code |-> cms_code,
                target_date |-> target_date]
    /\ pc' = "returned"
    /\ UNCHANGED <<catalogue_file, products_df, price_history>>

StoreNext ==
    \/ \E c \in UpdateCodes, p \in UpdatePrices, d \in UpdateDates : UpdatePrice(c, p, d)
    \/ LoadCatalogue
    \/ \E c \in UpdateCodes, d \in TargetDates : GetPriceAtDate(c, d)
    \/ \E t \in StoreTitles : Match(t, 70)
    \/ Return

StoreSpec == StoreInit /\ [][StoreNext]_vars

----------------------------------------------------------------------------
(* The inputs of the sales processors and of the order aggregator. *)

\* The titles of the sale rows.
SaleTitles == {
    <<"V","i","n","t","a","g","e"," ","C","a","m","e","r","a"," ","L","e","n","s">>,   \* "Vintage Camera Lens"
    <<"K","o","j","i","e"," ","S","a","n"," ","x"," ","5">>   \* "Kojie San x 5"
}

\* The 'Delivery service' cells of the sale rows.
DeliveryServices == {
    <<"R","o","y","a","l"," ","M","a","i","l"," ","T","r","a","c","k","e","d"," ","4","8">>,   \* "Royal Mail Tracked 48"
    <<"R","o","y","a","l"," ","M","a","i","l"," ","T","r","a","c","k","e","d"," ","2","4">>,   \* "Royal Mail Tracked 24"
    <<"E","v","r","i">>   \* "Evri"
}

\* The 'Tracking number' cells of the sale rows; the empty text when the
\* column is absent.
TrackingNumbers == {
    <<"Q","M","1","2","3","4","5","6","7","8","9","G","B">>,   \* "QM123456789GB"
    <<"1","5","5","0","1","2","3","4","5","6","7","8","9","0">>,   \* "15501234567890"
    <<>>   \* ""
}

\* 'UNMATCHED: ', the prefix of 'Items sold' of an unmatched row.
UnmatchedPrefix ==
    <<"U","N","M","A","T","C","H","E","D",":"," ">>

\* The title of a sale of a set of two Extract products.
TitleExtractSet ==
    <<"E","x","t","r","a","c","t"," ","S","o","a","p"," ","1","2","5","g"," ","&"," ","L","o","t","i","o","n"," ","2","0","0","m","l"," ","S","e","t">>

\* The title of a sale that matches nothing.
TitleCameraLens ==
    <<"V","i","n","t","a","g","e"," ","C","a","m","e","r","a"," ","L","e","n","s">>

\* The needles of _get_postage_cost.
Tracked48 ==
    <<"r","o","y","a","l"," ","m","a","i","l"," ","t","r","a","c","k","e","d"," ","4","8">>

Tracked24 ==
    <<"r","o","y","a","l"," ","m","a","i","l"," ","t","r","a","c","k","e","d"," ","2","4">>

----------------------------------------------------------------------------
(* The rows the sales processors emit for a sale without a match, and the  *)
(* order list of the aggregator.  Amounts are whole numbers of 1/12500 of a *)
(* penny, in which every fee and postage rate of the code is exact.        *)

PennyParts == 12500

\* row.get(key, default) of a row of a DataFrame.
Get(row, key, default) == IF key \in DOMAIN row THEN row[key] ELSE default

\* calculate_ebay_fees(sold_for, is_promoted), sold_for in pence:
\* (0.109 + 0.0035 - 0.0109) * 1.2 = 0.12192 of the price plus 0.3 * 1.2
\* pounds; 0.02 * 1.2 of the price for a promoted listing.
calculate_ebay_fees(sold_for, is_promoted) ==
    LET base_fee_calc == sold_for * 1524 + 36 * PennyParts
        promoted_fee == IF is_promoted THEN sold_for * 300 ELSE 0
        total_fee == base_fee_calc + promoted_fee
    IN [base_fee |-> base_fee_calc, promoted_fee |-> promoted_fee,
        total_fee |-> total_fee, total_exc_vat |-> (total_fee * 5) \div 6]

\* _get_postage_cost(row): 2.51424, 3.42144, 4.19904, 6.384 or 3.42 pounds.
get_postage_cost(row) ==
    LET delivery == Lower(Get(row, "Delivery service", <<>>))
        tracking == Get(row, "Tracking number", <<>>)
    IN  IF Contains(delivery, Tracked48)
        THEN IF LitAt(tracking, 1, <<"Q","M">>) THEN 3142800 ELSE 4276800
        ELSE IF Contains(delivery, Tracked24) THEN 5248800
        ELSE IF tracking # <<>> /\ IsDigit(tracking[1]) THEN 7980000
        ELSE 342 * PennyParts

\* MonthlySalesProcessor._create_unmatched_row(ebay_row).
ebay_create_unmatched_row(ebay_row) ==
    LET fees == calculate_ebay_fees(ebay_row["Sold for"], ebay_row["Is promoted"])
        postage_cost == get_postage_cost(ebay_row)
    IN  ("Sales record number" :> ebay_row["Sales record number"])
        @@ ("Order number" :> ebay_row["Order number"])
        @@ ("Sale date" :> ebay_row["Sale date"])
        @@ ("Sale month" :> ebay_row["Sale month"])
        @@ ("Items sold" :> UnmatchedPrefix \o ebay_row["Item title"])
        @@ ("eBay title" :> ebay_row["Item title"])
        @@ ("CMS code" :> "NO_MATCH")
        @@ ("Quantity" :> ebay_row["Quantity"])
        @@ ("Sold for" :> ebay_row["Sold for"] * PennyParts)
        @@ ("Postage" :> postage_cost)
        @@ ("Promoted listing" :> IF ebay_row["Is promoted"] THEN "Yes" ELSE "No")
        @@ ("EBAY FEES" :> fees.total_fee)
        @@ ("Cost price" :> 0)
        @@ ("COST LESS VAT" :> 0)
        @@ ("NET PROFIT" :> ebay_row["Sold for"] * PennyParts - fees.total_fee - postage_cost)
        @@ ("Delivery service" :> Get(ebay_row, "Delivery service", <<>>))
        @@ ("Tracking number" :> Get(ebay_row, "Tracking number", <<>>))
        @@ ("Match confidence" :> 0)
        @@ ("Special handling" :> "needs_manual_review")

\* calculate_amazon_fees(sale_amount), sale_amount in pence: 0.15 * 1.2.
calculate_amazon_fees(sale_amount) ==
    [referral_fee |-> sale_amount * 1875,
     total_fee |-> sale_amount * 2250,
     total_exc_vat |-> sale_amount * 1875]

\* AmazonSalesProcessor._create_unmatched_row(amazon_row, quantity,
\* item_col, amount_col).
amazon_create_unmatched_row(amazon_row, quantity, item_col, amount_col) ==
    LET cell == Get(amazon_row, amount_col, [isna |-> FALSE, value |-> 0])
        sale_amount == IF cell.isna THEN 0 ELSE cell.value
        fees == calculate_amazon_fees(sale_amount)
    IN  ("Transaction ID" :> Get(amazon_row, "Transaction ID", <<>>))
        @@ ("Sale date" :> Get(amazon_row, "Date", Get(amazon_row, "date/time", <<>>)))
        @@ ("Sale month" :> amazon_row["Sale month"])
        @@ ("Items sold" :> UnmatchedPrefix \o amazon_row[item_col])
        @@ ("Amazon title" :> amazon_row[item_col])
        @@ ("CMS code" :> "NO_MATCH")
        @@ ("Quantity" :> quantity)
        @@ ("Sold for" :> sale_amount * PennyParts)
        @@ ("Amazon fees" :> fees.total_fee)
        @@ ("Cost price" :> 0)
        @@ ("COST LESS VAT" :> 0)
        @@ ("NET PROFIT" :> sale_amount * PennyParts - fees.total_fee)
        @@ ("Match confidence" :> 0)

\* A quantity n/d: a sale of a set is split among its items.
FracAdd(a, b) == [num |-> a.num * b.den + b.num * a.den, den |-> a.den * b.den]

\* order_list[key].sum() of a column of whole numbers.
RECURSIVE ColumnSum(_, _)
ColumnSum(rows, key) ==
    IF rows = <<>> THEN 0 ELSE Head(rows)[key] + ColumnSum(Tail(rows), key)

\* order_list['Quantity'].sum().
RECURSIVE QuantitySum(_)
QuantitySum(rows) ==
    IF rows = <<>> THEN [num |-> 0, den |-> 1]
    ELSE FracAdd(Head(rows)["Quantity"], QuantitySum(Tail(rows)))

\* The rows of create_cms_order_list before they are sorted: the rows with
\* a code of the catalogue, a whole order quantity (np.ceil), the order
\* value in pence and the note of the rows above 50 pounds.
OrderRows(aggregated_df) ==
    LET cms_ready == SelectSeq(aggregated_df, LAMBDA r :
                        /\ r["CMS code"] # "NO_CODE"
                        /\ r["CMS code"] # "NO_MATCH"
                        /\ r["CMS code"] # NaN)
    IN  [k \in 1..Len(cms_ready) |->
            LET r == cms_ready[k]
                order_quantity == 0 - ((0 - r["Quantity"].num) \div r["Quantity"].den)
                order_value == order_quantity * r["Unit cost"]
            IN  ("CMS code" :> r["CMS code"])
                @@ ("Items sold" :> r["Items sold"])
                @@ ("Quantity" :> r["Quantity"])
                @@ ("Unit cost" :> r["Unit cost"])
                @@ ("Cost price" :> r["Cost price"])
                @@ ("Order Quantity" :> order_quantity)
                @@ ("Order Value" :> order_value)
                @@ ("Notes" :> IF order_value > 5000
                               THEN "High value - verify before ordering" ELSE "")]

\* sort_values('Order Value', ascending=False): the orders in which the
\* rows may come out; rows of equal value come out in either order.
SortedOrders(rows) ==
    {p \in Permutations(1..Len(rows)) :
        \A i, j \in 1..Len(rows) :
            i < j => rows[p[i]]["Order Value"] >= rows[p[j]]["Order Value"]}

\* create_cms_order_list(aggregated_df), the sort giving the order p: the
\* rows to order and the row of totals.
create_cms_order_list(aggregated_df, p) ==
    LET rows == OrderRows(aggregated_df)
        order_list == [k \in 1..Len(rows) |-> rows[p[k]]]
        totals ==
            ("CMS code" :> "TOTAL")
            @@ ("Items sold" :> "")
            @@ ("Quantity" :> QuantitySum(Tuple(order_list)))
            @@ ("Order Quantity" :> ColumnSum(Tuple(order_list), "Order Quantity"))
            @@ ("Unit cost" :> "")
            @@ ("Cost price" :> ColumnSum(Tuple(order_list), "Cost price"))
            @@ ("Order Value" :> ColumnSum(Tuple(order_list), "Order Value"))
            @@ ("Notes" :> <<"T","o","t","a","l"," ","i","t","e","m","s",":"," ">>
                            \o IntToStr(Len(order_list)))
    IN Tuple(order_list) \o << totals >>

\* ProductCatalogueManager.match_ebay_title(title): the matcher the sales
\* processors call, with the default threshold 0.7; its list of matches.
match_ebay_title(products, title) ==
    match_ebay_title_enhanced(products, title, 70).matches

\* MonthlySalesProcessor._create_matched_row(ebay_row, match, quantity).
\* The price is wholesale_price.num / wholesale_price.den pence and the
\* quantity quantity.num / quantity.den; their product in parts of a penny.
create_matched_row(ebay_row, match, quantity) ==
    LET fees == calculate_ebay_fees(ebay_row["Sold for"], ebay_row["Is promoted"])
        postage_cost == get_postage_cost(ebay_row)
        cost_price == (match.wholesale_price.num * quantity.num * PennyParts)
                          \div (match.wholesale_price.den * quantity.den)
    IN  ("Sales record number" :> ebay_row["Sales record number"])
        @@ ("Order number" :> ebay_row["Order number"])
        @@ ("Sale date" :> ebay_row["Sale date"])
        @@ ("Sale month" :> ebay_row["Sale month"])
        @@ ("Items sold" :> match.cms_name)
        @@ ("eBay title" :> ebay_row["Item title"])
        @@ ("CMS code" :> match.cms_code)
        @@ ("Quantity" :> quantity)
        @@ ("Sold for" :> ebay_row["Sold for"] * PennyParts)
        @@ ("Postage" :> postage_cost)
        @@ ("Promoted listing" :> IF ebay_row["Is promoted"] THEN "Yes" ELSE "No")
        @@ ("EBAY FEES" :> fees.total_fee)
        @@ ("Cost price" :> cost_price)
        @@ ("COST LESS VAT" :> (cost_price * 5) \div 6)
        @@ ("NET PROFIT" :> ebay_row["Sold for"] * PennyParts - fees.total_fee
                            - postage_cost - cost_price)
        @@ ("Delivery service" :> Get(ebay_row, "Delivery service", <<>>))
        @@ ("Tracking number" :> Get(ebay_row, "Tracking number", <<>>))
        @@ ("Match confidence" :> match.confidence)
        @@ ("Special handling" :> match.special_handling)

\* The body of the loop of process_sales_data: the rows appended to
\* matched_data for one sale row with the list matches.  A quantity is
\* n/d: a whole quantity has d = 1.
MatchedData(ebay_row, matches) ==
    IF matches # <<>>
    THEN IF /\ Len(matches) > 1
            /\ \A k \in 1..Len(matches) : matches[k].special_handling = "product_set"
         THEN LET qty_per_item == [num |-> ebay_row["Quantity"], den |-> Len(matches)]
              IN  Tuple([k \in 1..Len(matches) |->
                            create_matched_row(ebay_row, matches[k], qty_per_item)])
         ELSE LET match == matches[1]
                  quantity == IF match.special_handling = "bundle_multiply"
                              THEN ebay_row["Quantity"] * match.bundle_quantity
                              ELSE ebay_row["Quantity"]
              IN  << create_matched_row(ebay_row, match, [num |-> quantity, den |-> 1]) >>
    ELSE << [ebay_create_unmatched_row(ebay_row) EXCEPT
                !["Quantity"] = [num |-> ebay_row["Quantity"], den |-> 1]] >>

\* self.ebay_monthly_fee = 32.40, in parts of a penny.
ebay_monthly_fee == 3240 * PennyParts

\* MonthlySalesProcessor._create_monthly_summary(month_df): the row of the
\* monthly fee, the rows of the month and the row of the totals.
create_monthly_summary(month_df) ==
    LET monthly_fees ==
            ("Sales record number" :> <<>>)
            @@ ("Order number" :> <<>>)
            @@ ("Items sold" :> "EBAY FEES FOR BUSINESS")
            @@ ("Quantity" :> <<>>)
            @@ ("Sold for" :> <<>>)
            @@ ("Postage" :> <<>>)
            @@ ("EBAY FEES" :> ebay_monthly_fee)
            @@ ("Cost price" :> 0)
            @@ ("COST LESS VAT" :> 0)
            @@ ("NET PROFIT" :> 0 - ebay_monthly_fee)
        totals ==
            ("Sales record number" :> "Total")
            @@ ("Order number" :> <<>>)
            @@ ("Items sold" :> <<>>)
            @@ ("Quantity" :> QuantitySum(month_df))
            @@ ("Sold for" :> ColumnSum(month_df, "Sold for"))
            @@ ("Postage" :> ColumnSum(month_df, "Postage"))
            @@ ("EBAY FEES" :> ColumnSum(month_df, "EBAY FEES") + ebay_monthly_fee)
            @@ ("Cost price" :> ColumnSum(month_df, "Cost price"))
            @@ ("COST LESS VAT" :> ColumnSum(month_df, "COST LESS VAT"))
            @@ ("NET PROFIT" :> ColumnSum(month_df, "NET PROFIT") - ebay_monthly_fee)
    IN  << monthly_fees >> \o month_df \o << totals >>

\* The loop of process_sales_data over the sale rows: matched_data.
RECURSIVE ProcessedRows(_, _)
ProcessedRows(products, sales_df) ==
    IF sales_df = <<>> THEN <<>>
    ELSE MatchedData(Head(sales_df), match_ebay_title(products, Head(sales_df)["Item title"]))
         \o ProcessedRows(products, Tail(sales_df))

\* MonthlySalesProcessor.process_sales_data on the parsed rows sales_df of
\* a report: the summary of each month.
process_sales_data(products, sales_df) ==
    Local(ProcessedRows(products, sales_df), LAMBDA processed_df :
        [month \in {processed_df[k]["Sale month"] : k \in 1..Len(processed_df)} |->
            create_monthly_summary(
                SelectSeq(processed_df, LAMBDA r : r["Sale month"] = month))])

\* The sale rows of an eBay report, as parse_ebay_csv leaves them; prices
\* in pence.
EbayRows ==
    {("Sales record number" :> "1001")
     @@ ("Order number" :> "12-34567-89012")
     @@ ("Sale date" :> "2025-02-03")
     @@ ("Sale month" :> "February 2025")
     @@ ("Item title" :> title)
     @@ ("Quantity" :> quantity)
     @@ ("Sold for" :> sold_for)
     @@ ("Is promoted" :> is_promoted)
     @@ ("Delivery service" :> delivery)
     @@ ("Tracking number" :> tracking) :
        title \in SaleTitles, quantity \in {1, 2}, sold_for \in {999, 1550},
        is_promoted \in BOOLEAN, delivery \in DeliveryServices,
        tracking \in TrackingNumbers}

\* The sale rows of an Amazon report, as parse_amazon_csv leaves them; the
\* total is a number of pence, or NaN (isna) for an empty cell.
AmazonRows ==
    {("date/time" :> "2025-02-03")
     @@ ("order id" :> "202-1234567-1234567")
     @@ ("Sale month" :> "February 2025")
     @@ ("description" :> title)
     @@ ("total" :> total) :
        title \in SaleTitles,
        total \in {[isna |-> TRUE, value |-> 0], [isna |-> FALSE, value |-> 0],
                   [isna |-> FALSE, value |-> 1299]}}

\* The rows of an aggregated order: a product of the catalogue, an
\* unmatched sale, a product without a code, a row without a code cell and
\* a set item of which two and a half were sold.
AggregatedRows == <<
    ("Items sold" :> CatalogueRows[3].cms_product_name) @@ ("CMS code" :> "KS-3")
        @@ ("Quantity" :> [num |-> 3, den |-> 1]) @@ ("Unit cost" :> 450)
        @@ ("Cost price" :> 1350),
    ("Items sold" :> UnmatchedPrefix \o <<"L","e","n","s">>) @@ ("CMS code" :> "NO_MATCH")
        @@ ("Quantity" :> [num |-> 2, den |-> 1]) @@ ("Unit cost" :> 0)
        @@ ("Cost price" :> 0),
    ("Items sold" :> CatalogueRows[9].cms_product_name) @@ ("CMS code" :> "NO_CODE")
        @@ ("Quantity" :> [num |-> 1, den |-> 1]) @@ ("Unit cost" :> 520)
        @@ ("Cost price" :> 520),
    ("Items sold" :> CatalogueRows[4].cms_product_name) @@ ("CMS code" :> NaN)
        @@ ("Quantity" :> [num |-> 1, den |-> 1]) @@ ("Unit cost" :> 160)
        @@ ("Cost price" :> 160),
    ("Items sold" :> CatalogueRows[2].cms_product_name) @@ ("CMS code" :> "EXL-A")
        @@ ("Quantity" :> [num |-> 35, den |-> 2]) @@ ("Unit cost" :> 310)
        @@ ("Cost price" :> 5425),
    ("Items sold" :> CatalogueRows[1].cms_product_name) @@ ("CMS code" :> "EXS-A")
        @@ ("Quantity" :> [num |-> 6, den |-> 1]) @@ ("Unit cost" :> 930)
        @@ ("Cost price" :> 5580)
>>

\* The aggregated orders: some of the rows, in their order.
AggregatedFrames ==
    {SelectSeq(AggregatedRows, LAMBDA r : r["CMS code"] \in codes) :
        codes \in SUBSET {AggregatedRows[k]["CMS code"] : k \in 1..Len(AggregatedRows)}}

\* A sale row of a report, as parse_ebay_csv leaves it.
SaleRow(record_number, month, title, quantity, sold_for, is_promoted) ==
    ("Sales record number" :> record_number)
    @@ ("Order number" :> "12-34567-89012")
    @@ ("Sale date" :> "2025-02-03")
    @@ ("Sale month" :> month)
    @@ ("Item title" :> title)
    @@ ("Quantity" :> quantity)
    @@ ("Sold for" :> sold_for)
    @@ ("Is promoted" :> is_promoted)
    @@ ("Delivery service" :> <<"E","v","r","i">>)
    @@ ("Tracking number" :> <<>>)

\* The sale rows of the reports: two sales of a set of two products, a sale
\* of three bars and, in another month, a sale that matches nothing.
ReportRows == <<
    SaleRow("1001", "February 2025", TitleExtractSet, 2, 1550, TRUE),
    SaleRow("1002", "February 2025", TitleExtractSet, 1, 999, FALSE),
    SaleRow("1003", "February 2025", TestTitleKojieSanTrio, 1, 999, FALSE),
    SaleRow("1004", "March 2025", TitleCameraLens, 1, 1550, FALSE)
>>

\* The reports: some of the rows, in their order, and at least one (the
\* DataFrame of no rows has no 'Sale month' column to group by).
SalesReports ==
    {SelectSeq(ReportRows, LAMBDA r : r["Sales record number"] \in records) :
        records \in (SUBSET {"1001", "1002", "1003", "1004"}) \ {{}}}

\* The catalogue files of the sales processors: those of the price updates
\* and one with the two Extract products of the set.
SalesFiles ==
    StoredFiles
    \cup {[exists |-> TRUE,
           rows |-> << CatalogueRows[1], CatalogueRows[2], CatalogueRows[3] >>]}

\* The processors and the aggregator are constructed.
SalesInit ==
    /\ catalogue_file \in SalesFiles
    /\ products_df = load_catalogue(catalogue_file)
    /\ price_history = <<>>
    /\ pc = "idle"
    /\ call = NoCall
    /\ result = <<>>
    /\ trace = NoTrace

\* MonthlySalesProcessor._create_unmatched_row(ebay_row), which
\* process_sales_data calls for a row whose list of matches is empty.
EbayUnmatchedRow(ebay_row) ==
    /\ pc = "idle"
    /\ result' = ebay_create_unmatched_row(ebay_row)
    /\ trace' = [stage |-> "ebay_unmatched"]
    /\ call' = [op |-> "MonthlySalesProcessor._create_unmatched_row", row |-> ebay_row]
    /\ pc' = "returned"
    /\ UNCHANGED <<catalogue_file, products_df, price_history>>

\* AmazonSalesProcessor._create_unmatched_row(amazon_row, quantity,
\* 'description', 'total'), which process_sales_data calls for a row whose
\* list of matches is empty.
AmazonUnmatchedRow(amazon_row, quantity) ==
    /\ pc = "idle"
    /\ result' = amazon_create_unmatched_row(amazon_row, quantity, "description", "total")
    /\ trace' = [stage |-> "amazon_unmatched"]
    /\ call' = [op |-> "AmazonSalesProcessor._create_unmatched_row", row |-> amazon_row,
                quantity |-> quantity]
    /\ pc' = "returned"
    /\ UNCHANGED <<catalogue_file, products_df, price_history>>

\* OrderAggregator.create_cms_order_list(aggregated_df).
CreateCmsOrderList(aggregated_df) ==
    /\ pc = "idle"
    /\ \E p \in SortedOrders(OrderRows(aggregated_df)) :
          result' = create_cms_order_list(aggregated_df, p)
    /\ trace' = [stage |-> "order_list"]
    /\ call' = [op |-> "OrderAggregator.create_cms_order_list",
                aggregated_df |-> aggregated_df]
    /\ pc' = "returned"
    /\ UNCHANGED <<catalogue_file, products_df, price_history>>

\* MonthlySalesProcessor.process_sales_data on a report.
ProcessSalesData(sales_df) ==
    /\ pc = "idle"
    /\ result' = process_sales_data(products_df, sales_df)
    /\ trace' = [stage |-> "process_sales_data",
                 matches |-> Tuple([k \in 1..Len(sales_df) |->
                     match_ebay_title(products_df, sales_df[k]["Item title"])])]
    /\ call' = [op |-> "MonthlySalesProcessor.process_sales_data", sales_df |-> sales_df]
    /\ pc' = "returned"
    /\ UNCHANGED <<catalogue_file, products_df, price_history>>

SalesNext ==
    \/ \E row \in EbayRows : EbayUnmatchedRow(row)
    \/ \E row \in AmazonRows, quantity \in {1, 3} : AmazonUnmatchedRow(row, quantity)
    \/ \E aggregated_df \in AggregatedFrames : CreateCmsOrderList(aggregated_df)
    \/ \E sales_df \in SalesReports : ProcessSalesData(sales_df)
    \/ Return

SalesSpec == SalesInit /\ [][SalesNext]_vars

----------------------------------------------------------------------------
(* The scorer on a catalogue with a row without a code, a multi-pack, a   *)
(* single bar, an "N + 1 free" pack and a case.                           *)

\* The rows of the catalogue file, as stored; prices in pence.  Row 1 has
\* an empty code cell.
ScorerRows == <<
    \* 1: (no code) "Extract Skin Lightening & Brightening Herbal Soap Papaya Calamansi 125g"
    [cms_product_code |-> EmptyCell,
     cms_product_name |-> <<"E","x","t","r","a","c","t"," ","S","k","i","n"," ","L","i","g","h","t","e","n","i","n","g"," ","&"," ","B","r","i","g","h","t","e","n","i","n","g"," ","H","e","r","b","a","l"," ","S","o","a","p"," ","P","a","p","a","y","a"," ","C","a","l","a","m","a","n","s","i"," ","1","2","5","g">>,
     retail_price_inc_vat |-> 120, retail_price_exc_vat |-> 100,
     wholesale_price |-> 95, effective_date |-> "2025-01-01"],
    \* 2: KS-3 "Kojie San Skin Lightening & Brightening Soap 100g x 3"
    [cms_product_code |-> "KS-3",
     cms_product_name |-> <<"K","o","j","i","e"," ","S","a","n"," ","S","k","i","n"," ","L","i","g","h","t","e","n","i","n","g"," ","&"," ","B","r","i","g","h","t","e","n","i","n","g"," ","S","o","a","p"," ","1","0","0","g"," ","x"," ","3">>,
     retail_price_inc_vat |-> 599, retail_price_exc_vat |-> 499,
     wholesale_price |-> 450, effective_date |-> "2025-01-01"],
    \* 3: KS-1 "Kojie San Skin Lightening & Brightening Soap 100g"
    [cms_product_code |-> "KS-1",
     cms_product_name |-> <<"K","o","j","i","e"," ","S","a","n"," ","S","k","i","n"," ","L","i","g","h","t","e","n","i","n","g"," ","&"," ","B","r","i","g","h","t","e","n","i","n","g"," ","S","o","a","p"," ","1","0","0","g">>,
     retail_price_inc_vat |-> 220, retail_price_exc_vat |-> 183,
     wholesale_price |-> 160, effective_date |-> "2025-01-01"],
    \* 4: BELO-3 "Belo Kojic Acid & Tranexamic Acid Intensive Lightening & Brightening Bar 65g x 2 + 1 FREE"
    [cms_product_code |-> "BELO-3",
     cms_product_name |-> <<"B","e","l","o"," ","K","o","j","i","c"," ","A","c","i","d"," ","&"," ","T","r","a","n","e","x","a","m","i","c"," ","A","c","i","d"," ","I","n","t","e","n","s","i","v","e"," ","L","i","g","h","t","e","n","i","n","g"," ","&"," ","B","r","i","g","h","t","e","n","i","n","g"," ","B","a","r"," ","6","5","g"," ","x"," ","2"," ","+"," ","1"," ","F","R","E","E">>,
     retail_price_inc_vat |-> 699, retail_price_exc_vat |-> 582,
     wholesale_price |-> 520, effective_date |-> "2025-01-01"],
    \* 5: KS-72 "Kojie San Skin Lightening & Brightening Soap 135g x 72 (1 case)"
    [cms_product_code |-> "KS-72",
     cms_product_name |-> <<"K","o","j","i","e"," ","S","a","n"," ","S","k","i","n"," ","L","i","g","h","t","e","n","i","n","g"," ","&"," ","B","r","i","g","h","t","e","n","i","n","g"," ","S","o","a","p"," ","1","3","5","g"," ","x"," ","7","2"," ","(","1"," ","c","a","s","e",")">>,
     retail_price_inc_vat |-> 9900, retail_price_exc_vat |-> 8250,
     wholesale_price |-> 7920, effective_date |-> "2025-01-01"]
>>

\* The listing titles given to match_ebay_title_enhanced.
ScorerTitles == <<
    \* 1: "Extract Soap 125g & Lotion 200ml Set"  (a set of two Extract products)
    <<"E","x","t","r","a","c","t"," ","S","o","a","p"," ","1","2","5","g"," ","&"," ","L","o","t","i","o","n"," ","2","0","0","m","l"," ","S","e","t">>,
    \* 2: "Papaya Calamansi Extract Whitening Soap 125g"  (a listing a special matching rule names)
    <<"P","a","p","a","y","a"," ","C","a","l","a","m","a","n","s","i"," ","E","x","t","r","a","c","t"," ","W","h","i","t","e","n","i","n","g"," ","S","o","a","p"," ","1","2","5","g">>,
    \* 3: "Extract Papaya Calamansi Soap 125g"  (a listing only the scorer answers)
    <<"E","x","t","r","a","c","t"," ","P","a","p","a","y","a"," ","C","a","l","a","m","a","n","s","i"," ","S","o","a","p"," ","1","2","5","g">>,
    \* 4: "Kojie San Soap 100g x 3 (Large Trio Pack) - Skin Brightening & Lightening"  (a multi-pack of three)
    <<"K","o","j","i","e"," ","S","a","n"," ","S","o","a","p"," ","1","0","0","g"," ","x"," ","3"," ","(","L","a","r","g","e"," ","T","r","i","o"," ","P","a","c","k",")"," ","-"," ","S","k","i","n"," ","B","r","i","g","h","t","e","n","i","n","g"," ","&"," ","L","i","g","h","t","e","n","i","n","g">>,
    \* 5: "Kojie San Skin Lightening & Brightening Soap 100g"  (a single bar)
    <<"K","o","j","i","e"," ","S","a","n"," ","S","k","i","n"," ","L","i","g","h","t","e","n","i","n","g"," ","&"," ","B","r","i","g","h","t","e","n","i","n","g"," ","S","o","a","p"," ","1","0","0","g">>,
    \* 6: "Kojie San HydroMoist Soap 100g"  (a listing of the HydroMoist variant)
    <<"K","o","j","i","e"," ","S","a","n"," ","H","y","d","r","o","M","o","i","s","t"," ","S","o","a","p"," ","1","0","0","g">>,
    \* 7: "Kojie San Soap 100g x 3 Pack Bundle"  (a bundle of three single bars)
    <<"K","o","j","i","e"," ","S","a","n"," ","S","o","a","p"," ","1","0","0","g"," ","x"," ","3"," ","P","a","c","k"," ","B","u","n","d","l","e">>,
    \* 8: "Kojie San Soap 135g Wholesale Case"  (a listing that mentions wholesale and case)
    <<"K","o","j","i","e"," ","S","a","n"," ","S","o","a","p"," ","1","3","5","g"," ","W","h","o","l","e","s","a","l","e"," ","C","a","s","e">>,
    \* 9: "Safeguard Bundle Pack 125g Pure White Fresh Green Floral Pink"  (a Safeguard bundle of three variants)
    <<"S","a","f","e","g","u","a","r","d"," ","B","u","n","d","l","e"," ","P","a","c","k"," ","1","2","5","g"," ","P","u","r","e"," ","W","h","i","t","e"," ","F","r","e","s","h"," ","G","r","e","e","n"," ","F","l","o","r","a","l"," ","P","i","n","k">>,
    \* 10: "Safeguard Bundle Pack 125g Pure White"  (a Safeguard bundle that names one variant)
    <<"S","a","f","e","g","u","a","r","d"," ","B","u","n","d","l","e"," ","P","a","c","k"," ","1","2","5","g"," ","P","u","r","e"," ","W","h","i","t","e">>,
    \* 11: "Safeguard Bundle Pack 125g Pure White & Dr. S. Wong's Sulfur Soap 80g"  (a Safeguard bundle of one variant with a product of the manual table)
    <<"S","a","f","e","g","u","a","r","d"," ","B","u","n","d","l","e"," ","P","a","c","k"," ","1","2","5","g"," ","P","u","r","e"," ","W","h","i","t","e"," ","&"," ","D","r","."," ","S","."," ","W","o","n","g","'","s"," ","S","u","l","f","u","r"," ","S","o","a","p"," ","8","0","g">>
>>

\* The catalogue files: a missing file, and files of the first n rows.
ScorerFiles ==
    {[exists |-> FALSE, rows |-> <<>>]}
    \cup {[exists |-> TRUE, rows |-> SubSeq(ScorerRows, 1, n)] : n \in 1..Len(ScorerRows)}

\* __init__: load_catalogue(), an empty price history.
ScorerInit ==
    /\ catalogue_file \in ScorerFiles
    /\ products_df = load_catalogue(catalogue_file)
    /\ price_history = <<>>
    /\ pc = "idle"
    /\ call = NoCall
    /\ result = <<>>
    /\ trace = NoTrace

ScorerNext ==
    \/ \E k \in 1..Len(ScorerTitles), th \in Thresholds : Match(ScorerTitles[k], th)
    \/ Return

ScorerSpec == ScorerInit /\ [][ScorerNext]_vars

----------------------------------------------------------------------------
(* Properties of match_ebay_title_enhanced and clean_title, stated on the  *)
(* state in which a call has returned.                                     *)

\* A call of match_ebay_title_enhanced has returned.
MatchReturned == pc = "returned" /\ call.op = "match_ebay_title_enhanced"

\* A call of clean_title has returned.
CleanReturned == pc = "returned" /\ call.op = "clean_title"

\* The detected types of a title and of a product name do not differ (one
\* of them is none, or they are equal).
DetectedTypesAgree(title, name) ==
    LET title_type == normalize_product_type(title)
        name_type == normalize_product_type(name)
    IN title_type = None \/ name_type = None \/ title_type = name_type

\* A candidate that stands for a catalogue row, not for a synthetic entry.
IsCatalogueProduct(m) == m.cms_code \notin {"MANUAL_ENTRY", "ASSORTED_COSMETICS"}

\* The catalogue row of a candidate (the codes of a catalogue are distinct).
RowOf(m) == CHOOSE k \in 1..Len(products_df) : products_df[k].cms_product_code = m.cms_code

\* The text contains a cosmetics brand token, whatever its case.
HasCosmeticsToken(text) ==
    \/ Contains(Lower(text), <<"f","l","a","w","l","e","s","s","l","y"," ","u">>)
    \/ Contains(Lower(text), <<"f","l","a","w","l","e","s","s","l","y"," ","y","o","u">>)

\* Product-set detection resolves the title: it is a set listing and some
\* row carries the name of one of its items.
SetResolves(products, title) ==
    LET set_products == handle_product_sets(title)
    IN /\ set_products.is_set
       /\ \E i \in 1..Len(set_products.products) : \E k \in 1..Len(products) :
             products[k].cms_product_name = set_products.products[i].name

\* The rules whose pattern is found in the text and whose canonical name is
\* the name of some row.
RulesIn(products, text) ==
    {r \in 1..Len(SPECIAL_MATCHING_RULES) :
        /\ RegexSearch(SPECIAL_MATCHING_RULES[r].pattern, Lower(text))
        /\ \E k \in 1..Len(products) :
              products[k].cms_product_name = SPECIAL_MATCHING_RULES[r].cms_name}

\* The special rule stage resolves the title: the first rule, in table
\* order, that the title as rewritten matches has its canonical name in the
\* catalogue.
RuleResolves(products, title) ==
    LET rule == apply_special_matching_rule(RewrittenTitle(title))
    IN /\ rule # 0
       /\ \E k \in 1..Len(products) :
             products[k].cms_product_name = SPECIAL_MATCHING_RULES[rule].cms_name

\* The stage that decides a title when the stages are tried in the order of
\* the code: product set, bracket, cosmetics, special rule, manual table.
FirstStageInCodeOrder(products, title) ==
    IF SetResolves(products, title) THEN "product_set"
    ELSE IF BracketManualEntry(title) THEN "bracket"
    ELSE IF HasCosmeticsToken(RewrittenTitle(title)) THEN "cosmetics"
    ELSE IF RuleResolves(products, title) THEN "special_rule"
    ELSE IF get_manual_cost(RewrittenTitle(title)).found THEN "manual_cost"
    ELSE "scorer"

\* The stage that decides a title when the cosmetics check on the title
\* comes before the bracket stage.
FirstStageCosmeticsSecond(products, title) ==
    IF SetResolves(products, title) THEN "product_set"
    ELSE IF HasCosmeticsToken(title) THEN "cosmetics"
    ELSE IF BracketManualEntry(title) THEN "bracket"
    ELSE IF RuleResolves(products, title) THEN "special_rule"
    ELSE IF get_manual_cost(RewrittenTitle(title)).found THEN "manual_cost"
    ELSE "scorer"

\* The list returned has the form of the results of the stage.
ResultOfStage(stage, matches) ==
    CASE stage = "product_set" ->
            /\ matches # <<>>
            /\ \A k \in 1..Len(matches) : matches[k].special_handling = "product_set"
      [] stage \in {"bracket", "manual_cost"} ->
            /\ Len(matches) = 1
            /\ matches[1].cms_code = "MANUAL_ENTRY"
            /\ matches[1].special_handling = "manual_cost_override"
      [] stage = "cosmetics" ->
            /\ Len(matches) = 1
            /\ matches[1].cms_code = "ASSORTED_COSMETICS"
            /\ matches[1].special_handling = "flawlessly_u_aggregation"
      [] stage = "special_rule" ->
            /\ Len(matches) = 1
            /\ IsCatalogueProduct(matches[1])
            /\ matches[1].special_handling = None
      [] OTHER ->
            \A k \in 1..Len(matches) :
                /\ IsCatalogueProduct(matches[k])
                /\ matches[k].special_handling \in {None, "bundle_multiply"}

\* The single candidate of the cosmetics stage, returned without scoring.
IsCosmeticsResult ==
    /\ Len(result) = 1
    /\ result[1].cms_code = "ASSORTED_COSMETICS"
    /\ result[1].confidence.num = result[1].confidence.den
    /\ result[1].special_handling = "flawlessly_u_aggregation"
    /\ trace.stage = "cosmetics"
    /\ trace.scores = <<>>

\* The rows that pass the type filter for the title the scorer saw and whose
\* final score is at or above the threshold of the call.
Qualifying ==
    {k \in 1..Len(products_df) :
        /\ DetectedTypesAgree(trace.ebay_title, products_df[k].cms_product_name)
        /\ trace.scores[k].final_score.num * 100
              >= call.threshold * trace.scores[k].final_score.den}

----------------------------------------------------------------------------
(* C1 *)

\* C1 as stated: on every path, a returned catalogue product never has a
\* detected type that differs from the detected type of the listing title.
C1_TypeFilterEveryPath ==
    MatchReturned =>
        \A k \in 1..Len(result) :
            IsCatalogueProduct(result[k]) =>
                DetectedTypesAgree(call.ebay_title, result[k].cms_name)

\* C1, amended: on the generic scorer path, a returned product never has a
\* detected type that differs from the detected type of the title the scorer
\* was handed (the title after the Silka cleaning and the Kojie San bracket
\* rewrite), when both types are detected.
C1_TypeFilterScorer ==
    MatchReturned /\ trace.stage = "scorer" =>
        \A k \in 1..Len(result) :
            DetectedTypesAgree(trace.ebay_title, result[k].cms_name)

\* The scorer returned candidates at threshold 0 and left out a row of
\* another type that the cut at five did not remove.
C1_Witness ==
    /\ MatchReturned /\ trace.stage = "scorer"
    /\ call.threshold = 0
    /\ result # <<>> /\ Len(result) < TopMatches
    /\ \E k \in 1..Len(products_df) :
          ~DetectedTypesAgree(trace.ebay_title, products_df[k].cms_product_name)

----------------------------------------------------------------------------
(* C2 *)

\* C2: every returned candidate has a confidence in [0, 1], and the
\* candidates of the override stages have confidence exactly 1.
C2_ConfidenceRange ==
    MatchReturned =>
        \A k \in 1..Len(result) :
            /\ result[k].confidence.den > 0
            /\ result[k].confidence.num >= 0
            /\ result[k].confidence.num <= result[k].confidence.den
            /\ trace.stage # "scorer" =>
                  result[k].confidence.num = result[k].confidence.den

\* The scorer returned a row whose score before the final clamp was above 1.
C2_Witness ==
    /\ MatchReturned /\ trace.stage = "scorer"
    /\ \E j \in 1..Len(result) :
          LET s == trace.scores[RowOf(result[j])]
              unclamped == AddHundredths(s.similarity, s.bonus_score - s.penalty_score)
          IN /\ unclamped.num > unclamped.den
             /\ result[j].confidence.num = result[j].confidence.den

----------------------------------------------------------------------------
(* C3 *)

----------------------------------------------------------------------------
(* C4 *)

\* C4 as stated: a title that matches some special rule whose canonical
\* name is in the catalogue, and that product set, cosmetics and bracket do
\* not resolve, gets exactly that rule's product with confidence 1.
C4_AnyRule ==
    MatchReturned
    /\ ~SetResolves(products_df, call.ebay_title)
    /\ ~HasCosmeticsToken(call.ebay_title)
    /\ ~BracketManualEntry(call.ebay_title)
    /\ RulesIn(products_df, call.ebay_title) # {}
    => /\ Len(result) = 1
       /\ result[1].confidence.num = result[1].confidence.den
       /\ \E r \in RulesIn(products_df, call.ebay_title) :
             result[1].cms_name = SPECIAL_MATCHING_RULES[r].cms_name

\* C4, amended: when the title as handed to the rule stage (after the Silka
\* cleaning and the Kojie San bracket rewrite) matches a special rule, the
\* first rule it matches in table order has its canonical name in the
\* catalogue, and no earlier stage resolves, the result is exactly one
\* candidate: the first row of that name, with confidence 1.
C4_FirstRule ==
    MatchReturned
    /\ ~SetResolves(products_df, call.ebay_title)
    /\ ~BracketManualEntry(call.ebay_title)
    /\ ~HasCosmeticsToken(RewrittenTitle(call.ebay_title))
    /\ RuleResolves(products_df, call.ebay_title)
    => LET rule == apply_special_matching_rule(RewrittenTitle(call.ebay_title))
           name == SPECIAL_MATCHING_RULES[rule].cms_name
           first == Min({k \in 1..Len(products_df) : products_df[k].cms_product_name = name})
       IN /\ Len(result) = 1
          /\ result[1].cms_name = name
          /\ result[1].cms_code = products_df[first].cms_product_code
          /\ result[1].confidence.num = result[1].confidence.den

\* The special rule stage decided a title at the default threshold for
\* which the scorer gives another product a score at or above the threshold.
C4_Witness ==
    /\ MatchReturned
    /\ trace.stage = "special_rule"
    /\ call.threshold = 70
    /\ LET scores == ScoreAll(products_df, trace.ebay_title)
       IN \E k \in 1..Len(products_df) :
             /\ products_df[k].cms_product_name # result[1].cms_name
             /\ ~scores[k].skipped
             /\ scores[k].final_score.num * 100 >= 70 * scores[k].final_score.den

----------------------------------------------------------------------------
(* C5 *)

----------------------------------------------------------------------------
(* C6 *)

\* C6: the list returned holds at most 5 candidates, whichever stage
\* produced it.
C6_AtMostFive == MatchReturned => Len(result) <= 5

----------------------------------------------------------------------------
(* C7 *)

\* C7: the list of the scorer is sorted by non-increasing confidence, and
\* candidates of equal confidence are in catalogue order.
C7_Ranking ==
    MatchReturned /\ trace.stage = "scorer" =>
        \A i, j \in 1..Len(result) :
            i < j =>
                /\ ScoreGeq(result[i].confidence, result[j].confidence)
                /\ ScoreEq(result[i].confidence, result[j].confidence) =>
                      RowOf(result[i]) < RowOf(result[j])

\* The scorer returned two candidates of equal confidence behind one of a
\* higher confidence.
C7_Witness ==
    /\ MatchReturned /\ trace.stage = "scorer"
    /\ \E i, j \in 1..Len(result) :
          /\ i < j
          /\ ScoreEq(result[i].confidence, result[j].confidence)
    /\ \E i, j \in 1..Len(result) :
          /\ i < j
          /\ ~ScoreEq(result[i].confidence, result[j].confidence)

----------------------------------------------------------------------------
(* C8 *)

\* C8: when no override stage resolves, the result is the first 5 of the
\* ranked list of the rows that pass the type filter and score at or above
\* the threshold (inclusive): every candidate is such a row with its final
\* score, no row twice, and such a row is left out only when 5 candidates
\* rank ahead of it.
C8_TopFiveAtOrAbove ==
    MatchReturned /\ trace.stage = "scorer" =>
        /\ Len(result) = IF Cardinality(Qualifying) < 5 THEN Cardinality(Qualifying) ELSE 5
        /\ \A j \in 1..Len(result) :
              /\ \E k \in Qualifying : products_df[k].cms_product_code = result[j].cms_code
              /\ result[j].cms_name = products_df[RowOf(result[j])].cms_product_name
              /\ result[j].confidence = trace.scores[RowOf(result[j])].final_score
        /\ \A i, j \in 1..Len(result) : i # j => result[i].cms_code # result[j].cms_code
        /\ \A k \in Qualifying :
              (\A j \in 1..Len(result) : RowOf(result[j]) # k) =>
                  /\ Len(result) = 5
                  /\ \A j \in 1..Len(result) :
                        \/ ~ScoreGeq(trace.scores[k].final_score, result[j].confidence)
                        \/ /\ ScoreEq(trace.scores[k].final_score, result[j].confidence)
                           /\ RowOf(result[j]) < k

\* The scorer cut the list at 5, returned a row whose score equals the
\* threshold and left out a row of that same score.
C8_Witness ==
    /\ MatchReturned /\ trace.stage = "scorer"
    /\ Cardinality(Qualifying) > 5
    /\ \E j \in 1..Len(result) : \E k \in Qualifying :
          /\ result[j].confidence.num * 100 = call.threshold * result[j].confidence.den
          /\ \A i \in 1..Len(result) : RowOf(result[i]) # k
          /\ ScoreEq(trace.scores[k].final_score, result[j].confidence)

----------------------------------------------------------------------------
(* C9 *)

\* C9 as stated: with an empty catalogue every title gets the empty list.
C9_EmptyCatalogue ==
    MatchReturned /\ products_df = <<>> => result = <<>>

\* C9, amended: a missing catalogue file gives the empty catalogue; when no
\* override stage resolves the title and no row scores at or above the
\* threshold (in particular when the catalogue is empty), the result is the
\* empty list.  The cosmetics, bracket and manual stages return their
\* candidate whatever the catalogue.
C9_EmptyWhenNothingResolves ==
    /\ ~catalogue_file.exists => products_df = <<>>
    /\ MatchReturned
       /\ FirstStageInCodeOrder(products_df, call.ebay_title) = "scorer"
       /\ (\A k \in 1..Len(products_df) :
              \/ ~DetectedTypesAgree(RewrittenTitle(call.ebay_title),
                                     products_df[k].cms_product_name)
              \/ trace.scores[k].final_score.num * 100
                    < call.threshold * trace.scores[k].final_score.den)
       => result = <<>>

\* A title that no stage resolves was matched after the catalogue file was
\* missing at load.
C9_Witness ==
    /\ MatchReturned
    /\ ~catalogue_file.exists
    /\ FirstStageInCodeOrder(products_df, call.ebay_title) = "scorer"
    /\ result = <<>>

----------------------------------------------------------------------------
(* C10 *)

\* C10: clean_title is idempotent: cleaning a cleaned title changes nothing.
C10_Idempotent == CleanReturned => clean_title(result) = result

----------------------------------------------------------------------------
(* C11 *)

UpdateReturned == pc = "returned" /\ call.op = "update_price"

\* A step that is a call of update_price.
UpdateStep == pc = "idle" /\ pc' = "returned" /\ call'.op = "update_price"

\* The date a call of update_price may take as its effective date.
DatesOf(effective_date) == IF effective_date = None THEN Today ELSE {effective_date}

\* C11: a call of update_price with a code of the catalogue sets the
\* wholesale price and the effective date of that product and of no other,
\* appends exactly one entry (code, price before the call, new price, date)
\* to the history, and writes the catalogue to its file, so that the file
\* reads back as the catalogue in memory.  A repeated call appends again.
C11_UpdatePrice ==
    [][UpdateStep /\ Mask(products_df, call'.cms_code) # {} =>
        \E date \in DatesOf(call'.effective_date) :
            /\ Len(products_df') = Len(products_df)
            /\ \A k \in 1..Len(products_df) :
                  IF products_df[k].cms_product_code = call'.cms_code
                  THEN products_df'[k] =
                          [products_df[k] EXCEPT !.wholesale_price = call'.new_price,
                                                 !.effective_date = date]
                  ELSE products_df'[k] = products_df[k]
            /\ price_history' =
                  price_history \o
                  << [cms_code |-> call'.cms_code,
                      old_price |-> products_df[Min(Mask(products_df, call'.cms_code))].wholesale_price,
                      new_price |-> call'.new_price,
                      changed_date |-> date] >>
            /\ catalogue_file'.exists
            /\ load_catalogue(catalogue_file') = products_df'
            /\ trace'.logged = Updated]_vars

\* The same call of update_price was made twice and the history holds an
\* entry for each; the second entry's old price is the first one's new price.
C11_Witness ==
    /\ UpdateReturned
    /\ trace.logged = Updated
    /\ Len(price_history) = 2
    /\ price_history[1].cms_code = price_history[2].cms_code
    /\ price_history[1].new_price = price_history[2].new_price
    /\ price_history[1].changed_date = price_history[2].changed_date
    /\ price_history[2].old_price = price_history[1].new_price
    /\ price_history[1].old_price # price_history[1].new_price
    /\ load_catalogue(catalogue_file) = products_df
    /\ \E k \in 1..Len(products_df) : products_df[k].cms_product_code = NaN

----------------------------------------------------------------------------
(* C12 *)

\* The values that calls of update_price return when the code is in the
\* catalogue.
SuccessOutcomes ==
    UNION {{update_price(load_catalogue(file), <<>>, file, c, p, d, t).returned :
               c \in {c \in UpdateCodes : Mask(load_catalogue(file), c) # {}},
               p \in UpdatePrices, d \in UpdateDates, t \in Today} :
           file \in StoredFiles}

\* C12: a call of update_price with a code that is not in the catalogue
\* reports a failure the caller can tell from success: what it returns is
\* not what a successful call returns.
C12_ProductNotFound ==
    UpdateReturned /\ Mask(products_df, call.cms_code) = {}
        => result \notin SuccessOutcomes

----------------------------------------------------------------------------
(* C13 *)

\* C13: every wholesale price of the catalogue is non-negative, whatever
\* calls of update_price were made.
C13_NonNegativePrices ==
    \A k \in 1..Len(products_df) : products_df[k].wholesale_price >= 0

----------------------------------------------------------------------------
(* C14 *)

\* C14: the price history is append-only: in every step (a call of
\* update_price, load_catalogue or match_ebay_title_enhanced, or a return)
\* the history before is a prefix of the history after, and it is one entry
\* longer after a call of update_price with a code of the catalogue and as
\* long as before after every other step.
C14_AppendOnly ==
    [][/\ Len(price_history') >= Len(price_history)
       /\ SubSeq(price_history', 1, Len(price_history)) = price_history
       /\ Len(price_history') =
             Len(price_history)
             + (IF UpdateStep /\ Mask(products_df, call'.cms_code) # {} THEN 1 ELSE 0)]_vars

\* A call of update_price with a code that is not in the catalogue returned
\* when the history already had an entry.
C14_Witness ==
    /\ UpdateReturned
    /\ Mask(products_df, call.cms_code) = {}
    /\ Len(price_history) = 1
    /\ products_df # <<>>

----------------------------------------------------------------------------
(* C15 *)

\* The stages of match_ebay_title_enhanced.
Stages == {"product_set", "bracket", "cosmetics", "special_rule", "manual_cost", "scorer"}

\* C15: every call of match_ebay_title_enhanced returns a list of
\* candidates from one of its stages.  An override stage that does not
\* resolve hands over: the product-set stage when no row carries the name
\* of an item of the set, the special rule stage when no row carries the
\* rule's canonical name, the manual stage when the table has no entry.
\* When no override resolves, the scorer is reached and visits every row.
C15_HandOver ==
    MatchReturned =>
        /\ trace.stage \in Stages
        /\ DOMAIN result = 1..Len(result)
        /\ \A k \in 1..Len(result) : result[k].confidence.den > 0
        /\ ~SetResolves(products_df, call.ebay_title) => trace.stage # "product_set"
        /\ ~RuleResolves(products_df, call.ebay_title) => trace.stage # "special_rule"
        /\ ~get_manual_cost(RewrittenTitle(call.ebay_title)).found
              => trace.stage # "manual_cost"
        /\ (/\ ~SetResolves(products_df, call.ebay_title)
            /\ ~BracketManualEntry(call.ebay_title)
            /\ ~HasCosmeticsToken(RewrittenTitle(call.ebay_title))
            /\ ~RuleResolves(products_df, call.ebay_title)
            /\ ~get_manual_cost(RewrittenTitle(call.ebay_title)).found)
              => /\ trace.stage = "scorer"
                 /\ Len(trace.scores) = Len(products_df)

\* A title matched a special rule whose canonical name no row carries, the
\* manual table had no entry for it, and the scorer went over the rows.
C15_Witness ==
    /\ MatchReturned
    /\ products_df # <<>>
    /\ apply_special_matching_rule(RewrittenTitle(call.ebay_title)) # 0
    /\ ~RuleResolves(products_df, call.ebay_title)
    /\ trace.stage = "scorer"
    /\ Len(trace.scores) = Len(products_df)

----------------------------------------------------------------------------
(* C16 *)

\* A step that is a call of match_ebay_title_enhanced.
MatchStep == pc = "idle" /\ pc' = "returned" /\ call'.op = "match_ebay_title_enhanced"

\* C16: a call of match_ebay_title_enhanced is read-only: it leaves the
\* catalogue, the price history and the stored file as they were, and the
\* list it returns is the list that a call with the same title and
\* threshold returns on the manager as the call left it.  Hence calls with
\* the same arguments return the same list until a price is updated.
C16_ReadOnly ==
    [][MatchStep =>
        /\ products_df' = products_df
        /\ price_history' = price_history
        /\ catalogue_file' = catalogue_file
        /\ result' = match_ebay_title_enhanced(products_df', call'.ebay_title,
                                               call'.threshold).matches]_vars

\* A match returned the product of the latest of two price updates, at its
\* new price.
C16_Witness ==
    /\ MatchReturned
    /\ Len(price_history) = 2
    /\ \E k \in 1..Len(result) :
          /\ result[k].cms_code = price_history[2].cms_code
          /\ result[k].wholesale_price = Pence(price_history[2].new_price)
          /\ price_history[2].new_price # price_history[2].old_price

----------------------------------------------------------------------------
(* C17 *)

\* C17: for every row the scorer scores, with base the SequenceMatcher
\* ratio of the two cleaned texts: when both texts have a brand and the
\* brands differ, calculate_similarity returns exactly base - 0.3 (it may be
\* negative); when one of them has no brand it returns base.
C17_BrandAdjustment ==
    MatchReturned /\ trace.stage = "scorer" =>
        \E clean1 \in {clean_title(clean_title(trace.ebay_title))} :
        \E brand1 \in {extract_brand(clean1)} :
        \A k \in 1..Len(products_df) :
            ~trace.scores[k].skipped =>
                \E clean2 \in {clean_title(products_df[k].cms_product_name)} :
                \E r \in {SequenceMatcherRatio(clean1, clean2)} :
                \E brand2 \in {extract_brand(clean2)} :
                \E s \in {trace.scores[k].similarity} :
                    /\ r.t > 0
                    /\ (brand1 # <<>> /\ brand2 # <<>> /\ brand1 # brand2)
                          => s.num * 10 * r.t = (10 * r.m - 3 * r.t) * s.den
                    /\ (brand1 = <<>> \/ brand2 = <<>>)
                          => s.num * r.t = r.m * s.den

\* The scorer scored a row whose brand differs from the brand of the title,
\* and the similarity came out negative.
C17_Witness ==
    /\ MatchReturned
    /\ trace.stage = "scorer"
    /\ \E k \in 1..Len(products_df) :
          /\ ~trace.scores[k].skipped
          /\ trace.scores[k].similarity.num < 0
          /\ extract_brand(clean_title(trace.ebay_title))
                \notin {<<>>, extract_brand(clean_title(products_df[k].cms_product_name))}
          /\ extract_brand(clean_title(products_df[k].cms_product_name)) # <<>>

----------------------------------------------------------------------------
(* C18 *)

\* The name of the product of the scenario.
KojieSanTrioName == CatalogueRows[3].cms_product_name

\* The rows that carry the name of the product of the scenario.
TrioRows == {k \in 1..Len(products_df) : products_df[k].cms_product_name = KojieSanTrioName}

\* The first test title was matched against a catalogue with the product.
TrioMatched ==
    /\ MatchReturned
    /\ call.ebay_title = TestTitleKojieSanTrio
    /\ call.threshold = 70
    /\ TrioRows # {}

\* C18 as stated: the scorer returns the product as the top match, with a
\* confidence of at least 0.85.
C18_TopMatch ==
    TrioMatched =>
        /\ trace.stage = "scorer"
        /\ result # <<>>
        /\ result[1].cms_name = KojieSanTrioName
        /\ result[1].confidence.num * 100 >= 85 * result[1].confidence.den

\* C18, amended: at the threshold 0.7 no override stage resolves the title;
\* the scorer gives the product the brand bonus, the size bonus and the
\* multipack bonus of equal quantities and no penalty, and a final score of
\* at least 0.85; the top match has at least that score, and it is the
\* product unless another row scores higher, or as high and comes earlier.
C18_Scenario ==
    TrioMatched =>
        /\ trace.stage = "scorer"
        /\ result # <<>>
        /\ \E clean1 \in {clean_title(clean_title(trace.ebay_title))} :
           \E clean2 \in {clean_title(KojieSanTrioName)} :
           \E r \in {SequenceMatcherRatio(clean1, clean2)} :
           \A k \in TrioRows :
           \E s \in {trace.scores[k]} :
              /\ ~s.skipped
              /\ extract_brand(clean1) = extract_brand(clean2)
              /\ s.similarity.num * 100 * r.t = (100 * r.m + BrandBonus * r.t) * s.similarity.den
              /\ s.bonus_score = SizeBonus + MultipackBonus
              /\ s.penalty_score = 0
              /\ s.final_score.num * 100 >= 85 * s.final_score.den
              /\ ScoreGeq(result[1].confidence, s.final_score)
              /\ \/ result[1].cms_name = KojieSanTrioName
                 \/ \E j \in 1..Len(products_df) :
                       /\ ~trace.scores[j].skipped
                       /\ ScoreGeq(trace.scores[j].final_score, s.final_score)
                       /\ ~ScoreEq(trace.scores[j].final_score, s.final_score) \/ j < k

\* The product was the top match, with its price, below the confidence 1.
C18_Witness ==
    /\ TrioMatched
    /\ result[1].cms_name = KojieSanTrioName
    /\ result[1].cms_code = "KS-3"
    /\ result[1].confidence.num < result[1].confidence.den
    /\ result[1].confidence.num * 100 >= 85 * result[1].confidence.den

----------------------------------------------------------------------------
(* C19 *)

\* A processor has emitted the row of a sale without a match.
UnmatchedReturned ==
    /\ pc = "returned"
    /\ call.op \in {"MonthlySalesProcessor._create_unmatched_row",
                    "AmazonSalesProcessor._create_unmatched_row"}

\* C19: the row that either processor emits for a sale whose list of
\* matches is empty has the CMS code NO_MATCH, the cost price 0 and the
\* match confidence 0 and is marked needs_manual_review, and no row with the
\* code NO_MATCH is in the list that create_cms_order_list returns.
C19_UnmatchedRows ==
    /\ UnmatchedReturned =>
          /\ result["CMS code"] = "NO_MATCH"
          /\ result["Cost price"] = 0
          /\ result["Match confidence"] = 0
          /\ "Special handling" \in DOMAIN result
          /\ result["Special handling"] = "needs_manual_review"
    /\ pc = "returned" /\ call.op = "OrderAggregator.create_cms_order_list" =>
          \A k \in 1..Len(result) : result[k]["CMS code"] # "NO_MATCH"

----------------------------------------------------------------------------
(* C20 *)

\* C20: the final score of every row the scorer scores is the clamp to
\* [0, 1] of the sum of the base similarity (the ratio of the cleaned
\* texts), the brand adjustment, the bonuses and the penalties taken off:
\* one clamp, after everything is added.
C20_SingleClamp ==
    MatchReturned /\ trace.stage = "scorer" =>
        \E clean1 \in {clean_title(clean_title(trace.ebay_title))} :
        \E brand1 \in {extract_brand(clean1)} :
        \A k \in 1..Len(products_df) :
            ~trace.scores[k].skipped =>
                \E clean2 \in {clean_title(products_df[k].cms_product_name)} :
                \E r \in {SequenceMatcherRatio(clean1, clean2)} :
                \E brand2 \in {extract_brand(clean2)} :
                \E s \in {trace.scores[k]} :
                    LET brand_adjustment ==
                            IF brand1 = <<>> \/ brand2 = <<>> THEN 0
                            ELSE IF brand1 = brand2 THEN BrandBonus
                            ELSE 0 - BrandPenalty
                        sum == [num |-> 100 * r.m + (brand_adjustment + s.bonus_score
                                                      - s.penalty_score) * r.t,
                                den |-> 100 * r.t]
                    IN ScoreEq(s.final_score, MaxZero(MinOne(sum)))

----------------------------------------------------------------------------
(* C21 *)

\* The rows of the catalogue in memory whose name is name.
Entries(name) == {k \in 1..Len(products_df) : products_df[k].cms_product_name = name}

\* C21: when the product-set stage resolves a title, the result holds
\* exactly one candidate per detected sub-product, in their order, each a
\* catalogue entry of the sub-product's canonical name, with confidence 1.0
\* and the tag product_set; when the stage does not resolve a title that is
\* a set, no detected sub-product has a catalogue entry.
C21_OnePerSubProduct ==
    MatchReturned =>
        \E set_products \in {handle_product_sets(call.ebay_title)} :
            IF trace.stage = "product_set"
            THEN /\ set_products.is_set
                 /\ Len(result) = Len(set_products.products)
                 /\ \A k \in 1..Len(result) :
                       /\ result[k].cms_name = set_products.products[k].name
                       /\ Entries(result[k].cms_name) # {}
                       /\ result[k].confidence = One
                       /\ result[k].special_handling = "product_set"
            ELSE set_products.is_set =>
                    \A k \in 1..Len(set_products.products) :
                        Entries(set_products.products[k].name) = {}

----------------------------------------------------------------------------
(* C22 *)

\* C22: for a title that ends with a bracketed variant and is not answered
\* by the Kojie San 45g manual entry (or by the product-set stage, which
\* runs before the bracket is looked at), the title handed to the later
\* stages does not end with the bracket any more, whatever its brand.
C22_BracketStripped ==
    (/\ MatchReturned
     /\ parse_bracket_selection(call.ebay_title).found
     /\ trace.stage \notin {"product_set", "bracket"})
    => ~parse_bracket_selection(trace.ebay_title).found

----------------------------------------------------------------------------
(* C23 *)

\* C23: every candidate match_ebay_title_enhanced returns carries a code
\* that is not null: the product of a row without a code is reported with
\* the code 'NO_CODE', whichever stage returns it.
C23_NonNullCode ==
    MatchReturned => \A k \in 1..Len(result) : result[k].cms_code # NaN

----------------------------------------------------------------------------
(* C24 *)

ScorerReturned == MatchReturned /\ trace.stage = "scorer"

\* The rows the scorer scored: those the type filter did not skip.
ScoredRows == {k \in 1..Len(trace.scores) : ~trace.scores[k].skipped}

\* What the multi-pack block added to the score of row k, in hundredths.
MultipackAdjustment(k) ==
    trace.scores[k].adjustments.multipack_bonus
    - trace.scores[k].adjustments.multipack_penalty

\* The name holds an "N + 1 free" pattern: "+1" or "free", and a number N
\* followed by "+ 1".
FreePattern(cms_name) ==
    /\ PlusOneBase(cms_name) # <<>>
    /\ \/ Contains(Lower(cms_name), <<"+","1">>)
       \/ Contains(Lower(cms_name), <<"f","r","e","e">>)

\* C24: the multi-pack adjustment of a scored product is +0.2 when both
\* sides are multi-packs of the same quantity; +0.15 when both are
\* multi-packs, the quantities differ, the catalogue name holds an
\* "N + 1 free" pattern and the listing's quantity is N + 1; -0.3 when both
\* are multi-packs and neither holds; -0.4 when exactly one side is a
\* multi-pack; 0 when neither side is.
C24_MultipackAdjustment ==
    ScorerReturned =>
        \E ebay_info \in {extract_size_and_quantity(trace.ebay_title)} :
            \A k \in ScoredRows :
                \E cms_name \in {products_df[k].cms_product_name} :
                \E cms_info \in {extract_size_and_quantity(cms_name)} :
                    MultipackAdjustment(k) =
                        IF ebay_info.is_multipack /\ cms_info.is_multipack
                        THEN IF ebay_info.quantity = cms_info.quantity THEN 20
                             ELSE IF /\ FreePattern(cms_name)
                                     /\ ebay_info.quantity = IntOf(PlusOneBase(cms_name)) + 1
                                  THEN 15
                             ELSE 0 - 30
                        ELSE IF ebay_info.is_multipack # cms_info.is_multipack
                             THEN 0 - 40
                        ELSE 0

\* A listing of three against a catalogue with a pack of three (+0.2), a
\* "2 + 1 FREE" pack (+0.15), a case of 72 (-0.3) and a single bar (-0.4).
C24_Witness ==
    /\ ScorerReturned
    /\ call.ebay_title = ScorerTitles[4]
    /\ {MultipackAdjustment(k) : k \in ScoredRows} = {20, 15, 0 - 30, 0 - 40}

----------------------------------------------------------------------------
(* C25 *)

\* The listing, resp. the catalogue name, has the marker: one of the
\* texts that stand for it.
HasMarker(lower, texts) == \E t \in texts : Contains(lower, t)

\* The four variant markers: the texts that stand for the marker in a
\* catalogue name and in a listing, and the field of the penalty.
GreenMarker == {<<"g","r","e","e","n">>}
HydroMoistMarker ==
    {<<"h","y","d","r","o","m","o","i","s","t">>, <<"h","y","d","r","o"," ","m","o","i","s","t">>}
DreamWhiteMarker ==
    {<<"d","r","e","a","m"," ","w","h","i","t","e">>, <<"d","r","e","a","m","w","h","i","t","e">>}

\* C25: each variant marker costs a penalty when exactly one side has it,
\* whichever side that is, and nothing when both or neither side has it
\* (the pump marker on Silka lotions only).
C25_BothDirections ==
    ScorerReturned =>
        \E ebay_lower \in {Lower(trace.ebay_title)} :
            \A k \in ScoredRows :
                \E cms_lower \in {Lower(products_df[k].cms_product_name)} :
                \E adjustments \in {trace.scores[k].adjustments} :
                    /\ adjustments.green_penalty > 0
                          <=> (HasMarker(cms_lower, GreenMarker) # HasMarker(ebay_lower, GreenMarker))
                    /\ adjustments.hydromoist_penalty > 0
                          <=> (HasMarker(cms_lower, HydroMoistMarker)
                                  # HasMarker(ebay_lower, HydroMoistMarker))
                    /\ adjustments.dream_white_penalty > 0
                          <=> (HasMarker(cms_lower, DreamWhiteMarker)
                                  # HasMarker(ebay_lower, DreamWhiteMarker))
                    /\ (Contains(cms_lower, <<"s","i","l","k","a">>)
                           /\ Contains(cms_lower, <<"l","o","t","i","o","n">>))
                       => (adjustments.pump_penalty > 0
                              <=> (Contains(cms_lower, <<"w","i","t","h"," ","p","u","m","p">>)
                                      # Contains(ebay_lower, <<"p","u","m","p">>)))

----------------------------------------------------------------------------
(* C26 *)

\* The listing matches '<N> pack bundle'.
IsPackBundle(ebay_title) == PackBundle(Lower(ebay_title)) # <<>>

\* C26: when the listing matches '<N> pack bundle', every candidate of the
\* scorer carries bundle_quantity N and the tag bundle_multiply, and the
\* word 'bundle' adds no bonus to the score of any product.
C26_Informational ==
    ScorerReturned =>
        /\ IsPackBundle(trace.ebay_title) =>
              \A k \in 1..Len(result) :
                  /\ result[k].bundle_quantity = IntOf(PackBundle(Lower(trace.ebay_title)))
                  /\ result[k].special_handling = "bundle_multiply"
        /\ \A k \in ScoredRows : trace.scores[k].adjustments.bundle_bonus = 0

----------------------------------------------------------------------------
(* C27 *)

\* The listing mentions box, case, bulk or wholesale.
MentionsBulk(ebay_title) ==
    \E word \in {<<"b","o","x">>, <<"c","a","s","e">>, <<"b","u","l","k">>,
                 <<"w","h","o","l","e","s","a","l","e">>} :
        Contains(Lower(ebay_title), word)

\* The catalogue entry is bulk.
IsBulk(cms_name) == ContainsAny(Lower(cms_name), BulkCatalogueWords)

\* C27: the bulk adjustment of a scored product is -0.5 when the catalogue
\* entry is bulk and the listing mentions none of box, case, bulk,
\* wholesale; -0.3 when the entry is not bulk and the listing mentions one
\* of them; 0 when the two agree.  It is never both penalties.
C27_BulkAdjustment ==
    ScorerReturned =>
        \E listing_bulk \in {MentionsBulk(trace.ebay_title)} :
            \A k \in ScoredRows :
                \E cms_bulk \in {IsBulk(products_df[k].cms_product_name)} :
                    trace.scores[k].adjustments.bulk_penalty =
                        IF cms_bulk /\ ~listing_bulk THEN 50
                        ELSE IF ~cms_bulk /\ listing_bulk THEN 30
                        ELSE 0

\* A listing that mentions wholesale and case, scored against a case
\* (no penalty) and against products that are not bulk (0.3 each).
C27_Witness ==
    /\ ScorerReturned
    /\ MentionsBulk(trace.ebay_title)
    /\ \E k \in ScoredRows :
          /\ IsBulk(products_df[k].cms_product_name)
          /\ trace.scores[k].adjustments.bulk_penalty = 0
    /\ \E k \in ScoredRows :
          /\ ~IsBulk(products_df[k].cms_product_name)
          /\ trace.scores[k].adjustments.bulk_penalty = 30

----------------------------------------------------------------------------
(* C28 *)

\* The number of times text occurs in s.
Occurrences(s, text) == Cardinality({i \in 1..Len(s) : LitAt(s, i, text)})

\* The number of variant mentions of a lowercased title.
VariantMentions(lower) ==
    Occurrences(lower, <<"p","u","r","e"," ","w","h","i","t","e">>)
    + Occurrences(lower, <<"f","r","e","s","h"," ","g","r","e","e","n">>)
    + Occurrences(lower, <<"f","l","o","r","a","l"," ","p","i","n","k">>)

\* The title is one of a Safeguard bundle: 'safeguard bundle pack' and '125g'.
IsSafeguardBundle(lower) ==
    /\ Contains(lower, <<"s","a","f","e","g","u","a","r","d"," ","b","u","n","d","l","e"," ","p","a","c","k">>)
    /\ Contains(lower, <<"1","2","5","g">>)

\* The title holds a key of the manual cost table, or the words of the
\* Closeup or of the C.Y. Gabriel special case.
NamesTableEntry(lower) ==
    \/ \E k \in 1..Len(MANUAL_COST_MAPPINGS) : Contains(lower, MANUAL_COST_MAPPINGS[k].pattern)
    \/ Contains(lower, <<"c","l","o","s","e","u","p">>)
    \/ Contains(lower, <<"c","."," ","y","."," ","g","a","b","r","i","e","l">>)
    \/ Contains(lower, <<"c",".","y","."," ","g","a","b","r","i","e","l">>)

\* The manual table was consulted with the title of the call: no earlier
\* stage returned.
ManualConsulted == MatchReturned /\ trace.stage \in {"manual_cost", "scorer"}

\* Every candidate built from a manual-table result is the only one, with
\* code MANUAL_ENTRY, confidence 1.0 and tag manual_cost_override.
ManualCandidates ==
    (MatchReturned /\ trace.stage \in {"manual_cost", "bracket"}) =>
        /\ Len(result) = 1
        /\ result[1].cms_code = "MANUAL_ENTRY"
        /\ result[1].confidence = One
        /\ result[1].special_handling = "manual_cost_override"

\* C28 as stated: a Safeguard bundle title with two or more variant
\* mentions gets the cost 1.52 times the number of mentions; with zero or
\* one mention get_manual_cost returns no result; a manual candidate has
\* code MANUAL_ENTRY, confidence 1.0 and tag manual_cost_override.
C28_SafeguardBundle ==
    /\ ManualCandidates
    /\ ManualConsulted =>
          \E lower \in {Lower(trace.ebay_title)} :
              IsSafeguardBundle(lower) =>
                  IF VariantMentions(lower) >= 2
                  THEN /\ trace.stage = "manual_cost"
                       /\ result[1].wholesale_price = Pence(152 * VariantMentions(lower))
                  ELSE trace.stage = "scorer"

\* C28, amended: the same for a title that holds no key of the manual cost
\* table and neither the Closeup nor the C.Y. Gabriel words; the branch is
\* the last of get_manual_cost and is not reached by any other title.
C28_SafeguardBranch ==
    /\ ManualCandidates
    /\ ManualConsulted =>
          \E lower \in {Lower(trace.ebay_title)} :
              ~NamesTableEntry(lower) =>
                  IF IsSafeguardBundle(lower) /\ VariantMentions(lower) >= 2
                  THEN /\ trace.stage = "manual_cost"
                       /\ result[1].wholesale_price = Pence(152 * VariantMentions(lower))
                  ELSE trace.stage = "scorer"

\* A Safeguard bundle of three variants got the cost of three bars.
C28_Witness ==
    /\ MatchReturned
    /\ trace.stage = "manual_cost"
    /\ IsSafeguardBundle(Lower(call.ebay_title))
    /\ VariantMentions(Lower(call.ebay_title)) = 3
    /\ result[1].wholesale_price = Pence(456)
    /\ result[1].cms_code = "MANUAL_ENTRY"

----------------------------------------------------------------------------
(* C29 *)

PriceReturned == pc = "returned" /\ call.op = "get_price_at_date"

\* The days of the model in their order: d is earlier than e when it comes
\* first.
Calendar == <<"2025-01-01", "2025-07-01", "2025-07-15", "2025-07-16">>
DayOf(d) == CHOOSE i \in 1..Len(Calendar) : Calendar[i] = d

\* The changes of price of a code in the history, in the order of the calls.
ChangesOf(cms_code) ==
    {i \in 1..Len(price_history) : price_history[i].cms_code = cms_code}

\* The price of a product of the catalogue that was in force on
\* target_date: the new price of the last change in effect by that date
\* (the latest date, and the latest call among those of that date); before
\* every change, the price the first change replaced; the current price
\* when the price was never changed.
PriceInForce(cms_code, target_date) ==
    LET changes == ChangesOf(cms_code)
        in_effect == {i \in changes :
                        DayOf(price_history[i].changed_date) <= DayOf(target_date)}
        last == CHOOSE i \in in_effect :
                    \A j \in in_effect :
                        \/ DayOf(price_history[j].changed_date) < DayOf(price_history[i].changed_date)
                        \/ /\ price_history[j].changed_date = price_history[i].changed_date
                           /\ j <= i
    IN IF changes = {}
       THEN products_df[Min(Mask(products_df, cms_code))].wholesale_price
       ELSE IF in_effect = {} THEN price_history[Min(changes)].old_price
       ELSE price_history[last].new_price

\* C29: get_price_at_date returns the price that was in force on the date
\* asked, in particular the earlier price for a date before the latest
\* change, and an error value for an unknown code or an empty catalogue.
C29_PriceAtDate ==
    PriceReturned =>
        IF products_df = <<>> \/ Mask(products_df, call.cms_code) = {}
        THEN "error" \in DOMAIN result
        ELSE /\ "error" \notin DOMAIN result
             /\ result.wholesale_price = PriceInForce(call.cms_code, call.target_date)

----------------------------------------------------------------------------
(* C30 *)

ProcessReturned ==
    pc = "returned" /\ call.op = "MonthlySalesProcessor.process_sales_data"

\* The list of matches of the k-th sale row consists of several product_set
\* candidates.
IsSetSale(k) ==
    /\ Len(trace.matches[k]) > 1
    /\ \A j \in 1..Len(trace.matches[k]) :
          trace.matches[k][j].special_handling = "product_set"

\* The sale rows of the report in a month, and the rows of the summary of
\* the month that carry a record number.
SalesOfMonth(month) == SelectSeq(call.sales_df, LAMBDA r : r["Sale month"] = month)
RowsOfSale(month, record_number) ==
    SelectSeq(result[month], LAMBDA r : r["Sales record number"] = record_number)
TotalsRow(month) == result[month][Len(result[month])]

\* The fees and the postage of the sale rows, each sale counted once.
RECURSIVE FeesOnce(_)
FeesOnce(sales) ==
    IF sales = <<>> THEN 0
    ELSE calculate_ebay_fees(Head(sales)["Sold for"], Head(sales)["Is promoted"]).total_fee
         + FeesOnce(Tail(sales))
RECURSIVE PostageOnce(_)
PostageOnce(sales) ==
    IF sales = <<>> THEN 0 ELSE get_postage_cost(Head(sales)) + PostageOnce(Tail(sales))

\* The rows of a sale of a set sum to the quantity of the sale.
SplitConservesQuantity ==
    ProcessReturned =>
        \A k \in 1..Len(call.sales_df) :
            IsSetSale(k) =>
                \E row \in {call.sales_df[k]} :
                \E sum \in {QuantitySum(RowsOfSale(row["Sale month"], row["Sales record number"]))} :
                    /\ Len(RowsOfSale(row["Sale month"], row["Sales record number"]))
                         = Len(trace.matches[k])
                    /\ sum.num = row["Quantity"] * sum.den

\* C30: a sale row whose list of matches consists of k product_set
\* candidates is split into k rows whose quantities sum to the quantity of
\* the sale, and the totals row of its month counts the 'Sold for' amount,
\* the eBay fee and the postage of every sale once.
C30_SplitConservesTotals ==
    /\ SplitConservesQuantity
    /\ ProcessReturned =>
        \A k \in 1..Len(call.sales_df) :
            IsSetSale(k) =>
                \E month \in {call.sales_df[k]["Sale month"]} :
                \E sales \in {SalesOfMonth(month)} :
                \E totals \in {TotalsRow(month)} :
                    /\ totals["Sold for"] = ColumnSum(sales, "Sold for") * PennyParts
                    /\ totals["Postage"] = PostageOnce(sales)
                    /\ totals["EBAY FEES"] = FeesOnce(sales) + ebay_monthly_fee

\* A report with a sale of a set has been processed.
SetSaleProcessed ==
    ProcessReturned /\ \E k \in 1..Len(call.sales_df) : IsSetSale(k)

====
